---------------------------- MODULE Spec2Model ----------------------------
(***************************************************************************)
(* Feature preparation and inference alignment of the Premier League       *)
(* prediction API (backend/app).  Every request handler is one action; the *)
(* pure helpers of app/core/preprocessing.py are operators.                *)
(*                                                                         *)
(* Numbers are exact rationals [n |-> numerator, d |-> denominator] in     *)
(* lowest terms with d > 0.  The value with d = 0 is the missing value     *)
(* (Python None, pandas NaN).                                              *)
(***************************************************************************)
EXTENDS Integers, Sequences, FiniteSets, TLC

VARIABLES artifact, req, loc, resp

vars == <<artifact, req, loc, resp>>

----------------------------------------------------------------------------
(* Bounds of the model *)

MaxTeams == 2

----------------------------------------------------------------------------
(* Numbers *)

Abs(i) == IF i < 0 THEN -i ELSE i

RECURSIVE GCD(_, _)
GCD(a, b) == IF b = 0 THEN a ELSE GCD(b, a % b)

Rat(n, d) ==
    LET s == IF d < 0 THEN -1 ELSE 1
        g == GCD(Abs(n), Abs(d))
    IN  [n |-> (s * n) \div g, d |-> (s * d) \div g]

R(i) == [n |-> i, d |-> 1]

Missing == [n |-> 0, d |-> 0]

IsMissing(v) == v.d = 0

RLt(a, b) == a.n * b.d < b.n * a.d

RLe(a, b) == a.n * b.d <= b.n * a.d

RAdd(a, b) == Rat(a.n * b.d + b.n * a.d, a.d * b.d)

RSub(a, b) == Rat(a.n * b.d - b.n * a.d, a.d * b.d)

RMul(a, b) == Rat(a.n * b.n, a.d * b.d)

RDiv(a, b) == Rat(a.n * b.d, a.d * b.n)

RMin(a, b) == IF RLe(a, b) THEN a ELSE b

RMax(a, b) == IF RLe(a, b) THEN b ELSE a

(* int(x): truncation toward zero *)
Trunc(a) == IF a.n >= 0 THEN R(a.n \div a.d) ELSE R(-((-a.n) \div a.d))

RECURSIVE Pow10(_)
Pow10(k) == IF k = 0 THEN 1 ELSE 10 * Pow10(k - 1)

(* round(x, ndigits): nearest multiple of 10^-ndigits, exact ties to even *)
round(x, ndigits) ==
    LET s == Pow10(ndigits)
        q == (x.n * s) \div x.d
        r == (x.n * s) % x.d
        up == \/ 2 * r > x.d
              \/ 2 * r = x.d /\ q % 2 = 1
    IN  Rat(IF up THEN q + 1 ELSE q, s)

(* np.clip(x, lo, None): the upper limit forgotten *)
clip_without_upper(x, lo, hi) == RMax(lo, x)

(* np.clip(x, lo, hi) *)
clip(x, lo, hi) == RMax(lo, RMin(hi, x))

(* dict.get(key, default) *)
Get(dct, key, default) == IF key \in DOMAIN dct THEN dct[key] ELSE default

Range(s) == {s[i] : i \in DOMAIN s}

----------------------------------------------------------------------------
(* app/core/preprocessing.py : season ranking *)

calculate_win_rate(wins, total_matches) ==
    IF total_matches.n = 0 THEN R(0) ELSE round(RDiv(wins, total_matches), 4)

(* the same with 2 points for a win *)
calculate_points_two(wins, draws) == RAdd(RMul(wins, R(2)), draws)

calculate_points(wins, draws) == RAdd(RMul(wins, R(3)), draws)

(* the same without the sign *)
calculate_goal_difference_abs(scored, conceded) ==
    RMax(RSub(scored, conceded), RSub(conceded, scored))

calculate_goal_difference(scored, conceded) == RSub(scored, conceded)

prepare_season_ranking_features(team_stats) ==
    LET total_matches == RAdd(RAdd(team_stats["wins"], team_stats["draws"]),
                              team_stats["losses"])
        wins == team_stats["wins"]
        draws == team_stats["draws"]
        losses == team_stats["losses"]
        goals_scored == team_stats["goals_scored"]
        goals_conceded == team_stats["goals_conceded"]
        clean_sheets == Get(team_stats, "clean_sheets", R(0))
        win_rate == Get(team_stats, "win_rate",
                        calculate_win_rate(wins, total_matches))
        given_rate == Get(team_stats, "clean_sheet_rate", Missing)
        clean_sheet_rate ==
            IF IsMissing(given_rate)
            THEN IF total_matches.n = 0 THEN R(0)
                 ELSE round(RDiv(clean_sheets, total_matches), 4)
            ELSE given_rate
    IN  [Wins |-> wins,
         Draws |-> draws,
         Losses |-> losses,
         Goals_Scored |-> goals_scored,
         Goals_Conceded |-> goals_conceded,
         Goal_Difference |-> calculate_goal_difference(goals_scored, goals_conceded),
         Points |-> calculate_points(wins, draws),
         Win_Rate |-> win_rate,
         Clean_Sheet_Rate |-> clean_sheet_rate]

(* the same with the tests as mae < 1.0 and mae < 2.0 *)
assign_confidence_level_strict(mae, prediction) ==
    IF RLt(mae, R(1)) THEN "high"
    ELSE IF RLt(mae, R(2)) THEN "medium"
    ELSE "low"

assign_confidence_level(mae, prediction) ==
    IF RLe(mae, R(1)) THEN "high"
    ELSE IF RLe(mae, R(2)) THEN "medium"
    ELSE "low"

----------------------------------------------------------------------------
(* Model artifacts (app/core/model_loader.py).  An artifact is the dict    *)
(* stored in the .pkl file: model, optional scaler, 'features', metadata.  *)
(* validates_names is the behaviour of the installed scaler's transform    *)
(* on a frame whose column names differ from the names seen during fit:    *)
(* it either raises ValueError or only warns.                              *)

F9 == <<"Wins", "Draws", "Losses", "Goals_Scored", "Goals_Conceded",
        "Goal_Difference", "Points", "Win_Rate", "Clean_Sheet_Rate">>

F10 == F9 \o <<"Clean_Sheets">>

FX == <<"Points", "Goal_Difference", "Matches_Played">>

SeasonFeatureLists == {F9, F10, FX}

NoScaler == [present |-> FALSE, has_names |-> FALSE,
             feature_names_in_ |-> <<>>, validates_names |-> FALSE]

Scalers(lists) ==
    {NoScaler,
     [present |-> TRUE, has_names |-> FALSE,
      feature_names_in_ |-> <<>>, validates_names |-> FALSE]}
    \cup {[present |-> TRUE, has_names |-> TRUE,
           feature_names_in_ |-> l, validates_names |-> v] :
               l \in lists, v \in BOOLEAN}

(* metadata.get('mae', 1.15) *)
DefaultMae == Rat(115, 100)

(* a metadata dict: the keys it holds and the value of 'mae' *)
SeasonMetadata == {[keys |-> {}, mae |-> Missing],
                   [keys |-> {"mae"}, mae |-> Rat(25, 10)]}

MetaGet(m, key, default) == IF key \in m.keys THEN m[key] ELSE default

Bo1Artifacts ==
    {[kind |-> "bo1", scaler |-> s, features |-> f, metadata |-> m] :
        s \in Scalers(SeasonFeatureLists), f \in SeasonFeatureLists,
        m \in SeasonMetadata}

(* if scaler and hasattr(scaler, 'feature_names_in_') ... else feature_names *)
ScalerOrStoredFeatures(art) ==
    IF art.scaler.present /\ art.scaler.has_names
    THEN art.scaler.feature_names_in_
    ELSE art.features

(* scaler.transform(X) raises on a frame with other column names *)
ScalerRejects(art, columns) ==
    /\ art.scaler.present
    /\ art.scaler.has_names
    /\ art.scaler.validates_names
    /\ columns # art.scaler.feature_names_in_

----------------------------------------------------------------------------
(* app/api/bo1.py : inputs *)

(* teams.json *)
ValidTeams == {"Arsenal", "Chelsea", "Everton"}

Stats(w, d, l, gs, gc, cs) ==
    [wins |-> R(w), draws |-> R(d), losses |-> R(l), goals_scored |-> R(gs),
     goals_conceded |-> R(gc), clean_sheets |-> R(cs)]

(* TeamStats objects of a SeasonRankingRequest; win_rate is Optional *)
TeamStatsSet ==
    {[team |-> "Arsenal", win_rate |-> Missing] @@ Stats(20, 10, 8, 60, 30, 12),
     [team |-> "Chelsea", win_rate |-> Missing] @@ Stats(0, 0, 0, 0, 0, 0),
     [team |-> "Everton", win_rate |-> Rat(3, 4)] @@ Stats(15, 3, 2, 18, 45, 8),
     [team |-> "Atlantis", win_rate |-> Missing] @@ Stats(1, 1, 1, 1, 1, 1),
     [team |-> "Avalon", win_rate |-> Missing] @@ Stats(2, 2, 2, 2, 2, 2)}

(* TeamStats.dict(): every declared field is a key, unset Optionals are None *)
TeamStatsDict(t) ==
    [team |-> t.team, wins |-> t.wins, draws |-> t.draws, losses |-> t.losses,
     goals_scored |-> t.goals_scored, goals_conceded |-> t.goals_conceded,
     clean_sheets |-> t.clean_sheets, win_rate |-> t.win_rate]

(* rows of team_season_aggregated.csv; an empty cell is Missing.  A season *)
(* "2023-24" is written as its first year, which orders as the string does *)
Row(season, team, w, d, l, gs, gc, cs, wr, csr, mp, pos) ==
    [Season |-> season, Team |-> team, Wins |-> w, Draws |-> d, Losses |-> l,
     Goals_Scored |-> gs, Goals_Conceded |-> gc, Clean_Sheets |-> cs,
     Win_Rate |-> wr, Clean_Sheet_Rate |-> csr, Matches_Played |-> mp,
     Final_Position |-> pos]

DatasetRows ==
    {Row(2023, "Arsenal", R(20), R(10), R(8), R(60), R(30), R(12),
         Rat(5263, 10000), Rat(3158, 10000), R(38), R(2)),
     Row(2023, "Chelsea", Missing, R(0), R(0), R(0), R(0), Missing,
         Missing, Missing, R(0), Missing),
     Row(2022, "Everton", R(8), R(12), R(18), R(34), R(57), R(5),
         Missing, Missing, Missing, R(17))}

RequestSeasons == {2023, 2022, 2021}

(* outputs of model.predict for one row *)
PredValues == {Rat(-25, 10), Rat(3141, 1000), Rat(3144, 1000),
               Rat(20004, 1000), R(31)}

Seqs(S, lo, hi) == UNION {[1..k -> S] : k \in lo..hi}

----------------------------------------------------------------------------
(* app/api/bo1.py : helpers *)

(* get_team_stats_for_season, one row of the season's frame *)
team_stats_of_row(row) ==
    LET clean_sheet_rate ==
            IF IsMissing(row.Clean_Sheet_Rate)
            THEN LET clean_sheets == IF ~IsMissing(row.Clean_Sheets)
                                     THEN Trunc(row.Clean_Sheets) ELSE R(0)
                     matches == IF ~IsMissing(row.Matches_Played)
                                THEN Trunc(row.Matches_Played) ELSE R(38)
                 IN  IF RLt(R(0), matches) THEN RDiv(clean_sheets, matches)
                     ELSE R(0)
            ELSE row.Clean_Sheet_Rate
        IntOr0(v) == IF ~IsMissing(v) THEN Trunc(v) ELSE R(0)
    IN  [team |-> row.Team,
         wins |-> IntOr0(row.Wins),
         draws |-> IntOr0(row.Draws),
         losses |-> IntOr0(row.Losses),
         goals_scored |-> IntOr0(row.Goals_Scored),
         goals_conceded |-> IntOr0(row.Goals_Conceded),
         clean_sheets |-> IntOr0(row.Clean_Sheets),
         win_rate |-> IF ~IsMissing(row.Win_Rate) THEN row.Win_Rate ELSE R(0),
         clean_sheet_rate |-> clean_sheet_rate,
         actual_position |-> IF ~IsMissing(row.Final_Position)
                             THEN Trunc(row.Final_Position) ELSE Missing]

(* get_team_stats_for_season: the rows of the season, in file order *)
get_team_stats_for_season(df, season) ==
    LET InSeason(row) == row.Season = season
        season_df == SelectSeq(df, InSeason)
    IN  [i \in 1..Len(season_df) |-> team_stats_of_row(season_df[i])]

(* get_available_seasons: sorted(unique seasons, reverse=True) [0] *)
latest_season(df) ==
    CHOOSE s \in {df[i].Season : i \in DOMAIN df} :
        \A i \in DOMAIN df : df[i].Season <= s

(* list.sort(key=..., reverse=True): descending *)
RECURSIVE sort_descending(_)
sort_descending(list) ==
    IF list = <<>> THEN <<>>
    ELSE LET n == Len(list)
             last == list[n]
             head == sort_descending(SubSeq(list, 1, n - 1))
             before == {i \in DOMAIN head :
                          RLe(last.predicted_position, head[i].predicted_position)}
             k == Cardinality(before)
         IN  SubSeq(head, 1, k) \o <<last>> \o SubSeq(head, k + 1, n - 1)

(* an ascending sort that puts a later element before its equals *)
RECURSIVE sort_unstable(_)
sort_unstable(list) ==
    IF list = <<>> THEN <<>>
    ELSE LET n == Len(list)
             last == list[n]
             head == sort_unstable(SubSeq(list, 1, n - 1))
             before == {i \in DOMAIN head :
                          RLt(head[i].predicted_position, last.predicted_position)}
             k == Cardinality(before)
         IN  SubSeq(head, 1, k) \o <<last>> \o SubSeq(head, k + 1, n - 1)

(* list.sort(key=lambda x: x['predicted_position']): stable, ascending *)
RECURSIVE sort_by_predicted_position(_)
sort_by_predicted_position(list) ==
    IF list = <<>> THEN <<>>
    ELSE LET n == Len(list)
             last == list[n]
             head == sort_by_predicted_position(SubSeq(list, 1, n - 1))
             before == {i \in DOMAIN head :
                          RLe(head[i].predicted_position, last.predicted_position)}
             k == Cardinality(before)
         IN  SubSeq(head, 1, k) \o <<last>> \o SubSeq(head, k + 1, n - 1)

(* DataFrame([features])[names]: the values of the named columns, in order; *)
(* a name that is not a column raises KeyError                              *)
HasColumns(features, names) == Range(names) \subseteq DOMAIN features

SelectColumns(features, names) ==
    [j \in 1..Len(names) |-> features[names[j]]]

(* "Add any missing features the scaler expects" (GET routes) *)
add_missing_features(features, team_stat, actual_features) ==
    IF "Clean_Sheets" \in Range(actual_features)
       /\ "Clean_Sheets" \notin DOMAIN features
    THEN features @@ [Clean_Sheets |-> Get(team_stat, "clean_sheets", R(0))]
    ELSE features

(* the POST route adds nothing *)
add_nothing(features, team_stat, actual_features) == features

(* model.predict raises ValueError on a row holding None / NaN *)
HasMissing(row) == \E j \in DOMAIN row : IsMissing(row[j])

(* The per-team loop of the season routes (bo1.py 113-145, 330-367,       *)
(* 461-484).  The features of each team after the route's fill step:       *)
build_features(team_stats_list, expected, fills) ==
    [i \in 1..Len(team_stats_list) |->
        IF fills
        THEN add_missing_features(
                 prepare_season_ranking_features(team_stats_list[i]),
                 team_stats_list[i], expected)
        ELSE add_nothing(
                 prepare_season_ranking_features(team_stats_list[i]),
                 team_stats_list[i], expected)]

(* what one iteration raises: "" | "KeyError" | "ValueError" *)
team_error(features, art, expected) ==
    IF ~HasColumns(features, expected) THEN "KeyError"
    ELSE IF ScalerRejects(art, expected) THEN "ValueError"
    ELSE IF HasMissing(SelectColumns(features, expected)) THEN "ValueError"
    ELSE ""

(* the first team whose iteration raises; Len + 1 when none does *)
first_failure(feats, art, expected) ==
    IF \A i \in DOMAIN feats : team_error(feats[i], art, expected) = ""
    THEN Len(feats) + 1
    ELSE CHOOSE i \in DOMAIN feats :
            /\ team_error(feats[i], art, expected) # ""
            /\ \A j \in 1..(i - 1) : team_error(feats[j], art, expected) = ""

(* The locals when the loop ends.  outputs[i] is what model.predict returned *)
(* for team i; the loop stops at team `first` when that iteration raises.    *)
predict_teams(team_stats_list, art, expected, feats, first, outputs) ==
    [error |-> IF first <= Len(feats)
               THEN team_error(feats[first], art, expected) ELSE "",
     expected |-> expected,
     team_stats_list |-> team_stats_list,
     features |-> SubSeq(feats, 1, IF first <= Len(feats) THEN first ELSE Len(feats)),
     X |-> [i \in 1..(IF first <= Len(feats) /\ HasColumns(feats[first], expected)
                      THEN first ELSE first - 1) |->
              SelectColumns(feats[i], expected)],
     predictions_list |->
         [i \in 1..(first - 1) |->
             [team |-> team_stats_list[i].team,
              predicted_position |-> clip(outputs[i], R(1), R(20))]],
     outputs |-> outputs]

(* for rank, pred in enumerate(predictions_list, start=1): GET routes *)
enumerate_get(sorted, mae) ==
    [rank \in 1..Len(sorted) |->
        [rank |-> rank,
         team |-> sorted[rank].team,
         predicted_position |-> R(rank),
         raw_prediction |-> round(sorted[rank].predicted_position, 2),
         confidence |-> assign_confidence_level(mae, sorted[rank].predicted_position)]]

ranked_predictions_get(predictions_list, metadata) ==
    enumerate_get(sort_by_predicted_position(predictions_list),
                  MetaGet(metadata, "mae", DefaultMae))

(* for rank, pred in enumerate(predictions_list, start=1): POST route *)
enumerate_post(sorted, mae) ==
    [rank \in 1..Len(sorted) |->
        [rank |-> rank,
         team |-> sorted[rank].team,
         predicted_position |-> round(sorted[rank].predicted_position, 2),
         confidence |-> assign_confidence_level(mae, sorted[rank].predicted_position)]]

ranked_predictions_post(predictions_list, metadata) ==
    enumerate_post(sort_by_predicted_position(predictions_list),
                   MetaGet(metadata, "mae", DefaultMae))

----------------------------------------------------------------------------
(* State.                                                                  *)
(*   artifact  the model_data dict the loaders return (cached)             *)
(*   req       the request being answered                                  *)
(*   loc       the handler's locals when it returned or raised             *)
(*   resp      the HTTP response                                           *)

Idle == [route |-> "none"]

NoLocals == [error |-> "", expected |-> <<>>, team_stats_list |-> <<>>,
             features |-> <<>>, X |-> <<>>,
             predictions_list |-> <<>>, outputs |-> <<>>]

NoResponse == [status |-> 0, predictions |-> <<>>]

Failure(code) == [status |-> code, predictions |-> <<>>]

Datasets == Seqs(DatasetRows, 0, MaxTeams)

(* GET /forecast-next-season *)
forecast_next_season ==
    \E exists \in BOOLEAN, df \in Datasets :
        /\ req = Idle
        /\ exists \/ df = <<>>
        /\ req' = [route |-> "forecast_next_season", exists |-> exists, df |-> df]
        /\ UNCHANGED artifact
        /\ IF ~exists \/ df = <<>>
           THEN (* FileNotFoundError, or ValueError("No season data available") *)
                /\ loc' = NoLocals
                /\ resp' = Failure(500)
           ELSE \E team_stats_list \in {get_team_stats_for_season(df, latest_season(df))},
                   actual_features \in {ScalerOrStoredFeatures(artifact)} :
                \E feats \in {build_features(team_stats_list, actual_features,
                                             TRUE)} :
                \E first \in {first_failure(feats, artifact, actual_features)} :
                \E outputs \in [1..(first - 1) -> PredValues] :
                \E l \in {predict_teams(team_stats_list, artifact, actual_features,
                                        feats, first, outputs)} :
                    /\ loc' = l
                    /\ resp' = IF l.error # "" THEN Failure(500)
                               ELSE [status |-> 200,
                                     predictions |-> ranked_predictions_get(
                                         l.predictions_list, artifact.metadata)]

(* GET /predict-season/{season} *)
predict_season_from_data ==
    \E season \in RequestSeasons, exists \in BOOLEAN, df \in Datasets :
        /\ req = Idle
        /\ exists \/ df = <<>>
        /\ req' = [route |-> "predict_season_from_data", season |-> season,
                   exists |-> exists, df |-> df]
        /\ UNCHANGED artifact
        /\ \E team_stats_list \in {get_team_stats_for_season(df, season)} :
           IF ~exists
           THEN (* FileNotFoundError *)
                /\ loc' = NoLocals
                /\ resp' = Failure(500)
           ELSE IF team_stats_list = <<>>
           THEN (* ValueError("No data found for season") *)
                /\ loc' = NoLocals
                /\ resp' = Failure(400)
           ELSE \E actual_features \in {ScalerOrStoredFeatures(artifact)} :
                \E feats \in {build_features(team_stats_list, actual_features,
                                             TRUE)} :
                \E first \in {first_failure(feats, artifact, actual_features)} :
                \E outputs \in [1..(first - 1) -> PredValues] :
                \E l \in {predict_teams(team_stats_list, artifact, actual_features,
                                        feats, first, outputs)} :
                    /\ loc' = l
                    /\ resp' = IF l.error = "ValueError" THEN Failure(400)
                               ELSE IF l.error # "" THEN Failure(500)
                               ELSE [status |-> 200,
                                     predictions |-> ranked_predictions_get(
                                         l.predictions_list, artifact.metadata)]

(* the validation loop looking at the first team of the request only *)
invalid_teams_head_only(teams) ==
    {i \in {1} : teams[i].team \notin ValidTeams}

(* for team_stat in request.teams: if team_stat.team not in valid_teams:   *)
(* the positions of the request the loop would reject                      *)
invalid_teams(teams) ==
    {i \in DOMAIN teams : teams[i].team \notin ValidTeams}

(* the first position of a non-empty set of positions *)
first_of(positions) ==
    CHOOSE i \in positions : \A j \in positions : i <= j

(* POST /predict-season *)
predict_season_ranking ==
    \E teams \in Seqs(TeamStatsSet, 1, MaxTeams) :
        /\ req = Idle
        /\ req' = [route |-> "predict_season_ranking", teams |-> teams]
        /\ UNCHANGED artifact
        /\ IF invalid_teams(teams) # {}
           THEN (* HTTPException(400) from the validation loop, raised for  *)
                (* the first team_stat it rejects; detail names that team   *)
                /\ loc' = NoLocals
                /\ resp' = Failure(400) @@
                           [detail |-> teams[first_of(invalid_teams(teams))].team]
           ELSE \E team_stats_list \in {[i \in DOMAIN teams |-> TeamStatsDict(teams[i])]},
                   feature_names \in {artifact.features} :
                \E feats \in {build_features(team_stats_list, feature_names,
                                             FALSE)} :
                \E first \in {first_failure(feats, artifact, feature_names)} :
                \E outputs \in [1..(first - 1) -> PredValues] :
                \E l \in {predict_teams(team_stats_list, artifact, feature_names,
                                        feats, first, outputs)} :
                    /\ loc' = l
                    /\ resp' = IF l.error # "" THEN Failure(500)
                               ELSE [status |-> 200,
                                     predictions |-> ranked_predictions_post(
                                         l.predictions_list, artifact.metadata)]

(* The response is serialised and sent; the request's locals are dropped   *)
(* and the worker takes the next request.  The cached artifact stays.      *)
send_response ==
    /\ req # Idle
    /\ req' = Idle
    /\ loc' = NoLocals
    /\ resp' = NoResponse
    /\ UNCHANGED artifact

InitSeason ==
    /\ artifact \in Bo1Artifacts
    /\ req = Idle
    /\ loc = NoLocals
    /\ resp = NoResponse

NextSeason ==
    \/ forecast_next_season
    \/ predict_season_from_data
    \/ predict_season_ranking
    \/ send_response

SpecSeason == InitSeason /\ [][NextSeason]_vars

----------------------------------------------------------------------------
(* app/core/preprocessing.py : match outcome *)

(* labels.get(prediction, "Unknown") *)
get_outcome_label(prediction) ==
    CASE prediction = 0 -> "Away Win"
      [] prediction = 1 -> "Draw"
      [] prediction = 2 -> "Home Win"
      [] OTHER -> "Unknown"

RECURSIVE SeqMax(_)
SeqMax(s) ==
    IF Len(s) = 1 THEN s[1] ELSE RMax(s[1], SeqMax(Tail(s)))

(* the same with the first test as max_prob >= 0.6 *)
calculate_match_confidence_ge(probabilities) ==
    IF RLe(Rat(6, 10), SeqMax(probabilities)) THEN "high"
    ELSE IF RLe(Rat(4, 10), SeqMax(probabilities)) THEN "medium"
    ELSE "low"

calculate_match_confidence(probabilities) ==
    IF RLt(Rat(6, 10), SeqMax(probabilities)) THEN "high"
    ELSE IF RLe(Rat(4, 10), SeqMax(probabilities)) THEN "medium"
    ELSE "low"

----------------------------------------------------------------------------
(* app/api/bo2.py : the match log and the per-team aggregates *)

MaxMatches == 2

MaxFeatures == 2

(* a row of processed_premier_league_combined.csv; Date is written as a    *)
(* number that orders as the file's date strings do                         *)
MatchRow(date, home, away, ftr, fthg, ftag, hs, as, hst, ast, hf, af, hc, ac, hy, ay, hr, ar) ==
    [Date |-> date, HomeTeam |-> home, AwayTeam |-> away, FTR |-> ftr,
     FTHG |-> fthg, FTAG |-> ftag, HS |-> hs, AS |-> as, HST |-> hst,
     AST |-> ast, HF |-> hf, AF |-> af, HC |-> hc, AC |-> ac, HY |-> hy,
     AY |-> ay, HR |-> hr, AR |-> ar]

MatchRows ==
    {MatchRow(1, "Arsenal", "Chelsea", "H", R(3), R(1), R(14), R(9), R(6), R(3),
              R(10), R(12), R(7), R(4), R(2), R(3), R(0), R(1)),
     MatchRow(2, "Arsenal", "Chelsea", "D", R(2), R(2), R(0), R(11), R(0), R(5),
              R(0), R(9), R(3), R(6), R(1), R(1), R(0), R(0)),
     MatchRow(3, "Chelsea", "Arsenal", "A", R(0), R(2), Missing, R(8), Missing,
              R(4), Missing, R(11), Missing, R(5), Missing, R(2), Missing, R(0))}

MatchLogs == Seqs(MatchRows, 0, MaxMatches)

RECURSIVE SeqSum(_)
SeqSum(s) == IF s = <<>> THEN R(0) ELSE RAdd(s[1], SeqSum(Tail(s)))

(* Series.mean(): the mean of the cells that hold a value, NaN if none does *)
mean(rows, column) ==
    IF \A i \in DOMAIN rows : IsMissing(rows[i][column]) THEN Missing
    ELSE RDiv(SeqSum([i \in DOMAIN rows |->
                        IF IsMissing(rows[i][column]) THEN R(0)
                        ELSE rows[i][column]]),
              R(Cardinality({i \in DOMAIN rows : ~IsMissing(rows[i][column])})))

(* Series.sum(): the sum of the cells that hold a value *)
sum(rows, column) ==
    SeqSum([i \in DOMAIN rows |->
              IF IsMissing(rows[i][column]) THEN R(0) ELSE rows[i][column]])

(* (frame['FTR'] == letter).sum() *)
count_result(rows, letter) ==
    Cardinality({i \in DOMAIN rows : rows[i].FTR = letter})

(* sort_values('Date'): ascending by date *)
RECURSIVE sort_by_date(_)
sort_by_date(rows) ==
    IF rows = <<>> THEN <<>>
    ELSE LET n == Len(rows)
             last == rows[n]
             head == sort_by_date(SubSeq(rows, 1, n - 1))
             k == Cardinality({i \in DOMAIN head : head[i].Date <= last.Date})
         IN  SubSeq(head, 1, k) \o <<last>> \o SubSeq(head, k + 1, n - 1)

(* frame.tail(n) *)
tail(rows, n) ==
    IF Len(rows) <= n THEN rows ELSE SubSeq(rows, Len(rows) - n + 1, Len(rows))

(* value if pd.notna(value) else default *)
NotNaOr(value, default) == IF IsMissing(value) THEN default ELSE value

default_aggregate ==
    [shots |-> R(12), shots_on_target |-> R(5), fouls |-> R(12),
     corners |-> R(5), yellows |-> Rat(3, 2), reds |-> Rat(1, 20),
     wins |-> R(5), goals_scored |-> Rat(13, 10), goals_conceded |-> Rat(12, 10),
     form_wins |-> R(2), form_goals |-> R(5)]

(* the same with the goals conceded read from the column of goals scored *)
aggregate_conceded_as_scored(team_matches, recent, is_home) ==
    LET me == IF is_home THEN "H" ELSE "A"
        scored == IF is_home THEN "FTHG" ELSE "FTAG"
    IN  [shots |-> NotNaOr(mean(team_matches, me \o "S"), R(12)),
         shots_on_target |-> NotNaOr(mean(team_matches, me \o "ST"), R(5)),
         fouls |-> NotNaOr(mean(team_matches, me \o "F"), R(12)),
         corners |-> NotNaOr(mean(team_matches, me \o "C"), R(5)),
         yellows |-> NotNaOr(mean(team_matches, me \o "Y"), Rat(3, 2)),
         reds |-> NotNaOr(mean(team_matches, me \o "R"), Rat(1, 20)),
         wins |-> R(count_result(team_matches, me)),
         goals_scored |-> NotNaOr(mean(team_matches, scored), Rat(13, 10)),
         goals_conceded |-> NotNaOr(mean(team_matches, scored), Rat(12, 10)),
         form_wins |-> R(count_result(recent, me)),
         form_goals |-> Trunc(sum(recent, scored))]

(* the aggregate of a non-empty frame of the team's matches in one role *)
aggregate(team_matches, recent, is_home) ==
    LET me == IF is_home THEN "H" ELSE "A"
        scored == IF is_home THEN "FTHG" ELSE "FTAG"
        conceded == IF is_home THEN "FTAG" ELSE "FTHG"
    IN  [shots |-> NotNaOr(mean(team_matches, me \o "S"), R(12)),
         shots_on_target |-> NotNaOr(mean(team_matches, me \o "ST"), R(5)),
         fouls |-> NotNaOr(mean(team_matches, me \o "F"), R(12)),
         corners |-> NotNaOr(mean(team_matches, me \o "C"), R(5)),
         yellows |-> NotNaOr(mean(team_matches, me \o "Y"), Rat(3, 2)),
         reds |-> NotNaOr(mean(team_matches, me \o "R"), Rat(1, 20)),
         wins |-> R(count_result(team_matches, me)),
         goals_scored |-> NotNaOr(mean(team_matches, scored), Rat(13, 10)),
         goals_conceded |-> NotNaOr(mean(team_matches, conceded), Rat(12, 10)),
         form_wins |-> R(count_result(recent, me)),
         form_goals |-> Trunc(sum(recent, scored))]

(* the same over the team's matches in either role *)
get_team_historical_stats_any_role(team, is_home, df) ==
    LET Mine(row) == row.HomeTeam = team \/ row.AwayTeam = team
        team_matches == SelectSeq(df, Mine)
    IN  IF team_matches = <<>> THEN default_aggregate
        ELSE aggregate(team_matches, tail(sort_by_date(team_matches), 10), is_home)

(* get_team_historical_stats(team, is_home, df) for a loaded frame df *)
get_team_historical_stats(team, is_home, df) ==
    LET Mine(row) == IF is_home THEN row.HomeTeam = team ELSE row.AwayTeam = team
        team_matches == SelectSeq(df, Mine)
    IN  IF team_matches = <<>> THEN default_aggregate
        ELSE aggregate(team_matches, tail(sort_by_date(team_matches), 10), is_home)

(* the same with a not-a-number denominator passed through *)
ratio_nan_through(num, den) ==
    IF IsMissing(den) THEN Missing
    ELSE IF den.n = 0 THEN R(0) ELSE RDiv(num, den)

(* the safe ratio helper of prepare_match_features *)
ratio(num, den) ==
    IF IsMissing(den) \/ den.n = 0 THEN R(0) ELSE RDiv(num, den)

(* team_encoding.json *)
TeamEncoding == [Arsenal |-> R(0), Chelsea |-> R(5)]

(* the feature_values dict of prepare_match_features *)
feature_values(home_team, away_team, team_encoding, h, a) ==
    [HomeTeam_le |-> Get(team_encoding, home_team, R(0)),
     AwayTeam_le |-> Get(team_encoding, away_team, R(1)),
     Season_encoded |-> R(24),
     HS |-> h.shots,
     AS |-> a.shots,
     HST |-> h.shots_on_target,
     AST |-> a.shots_on_target,
     HF |-> h.fouls,
     AF |-> a.fouls,
     HC |-> h.corners,
     AC |-> a.corners,
     HY |-> h.yellows,
     AY |-> a.yellows,
     HR |-> h.reds,
     AR |-> a.reds,
     home_wins_L5 |-> h.form_wins,
     home_goals_scored_L5 |-> h.form_goals,
     home_goals_conceded_L5 |-> Trunc(RMul(h.goals_conceded, R(5))),
     away_wins_L5 |-> a.form_wins,
     away_goals_scored_L5 |-> a.form_goals,
     away_goals_conceded_L5 |-> Trunc(RMul(a.goals_conceded, R(5))),
     home_shot_accuracy |-> ratio(h.shots_on_target, h.shots),
     away_shot_accuracy |-> ratio(a.shots_on_target, a.shots),
     home_discipline |-> ratio(RAdd(h.yellows, h.reds), h.fouls),
     away_discipline |-> ratio(RAdd(a.yellows, a.reds), a.fouls),
     HS_per_Shots |-> ratio(h.shots_on_target, h.shots),
     AS_per_Shots |-> ratio(a.shots_on_target, a.shots),
     HF_per_Fouls |-> ratio(RAdd(h.yellows, h.reds), h.fouls),
     AF_per_Fouls |-> ratio(RAdd(a.yellows, a.reds), a.fouls),
     Home_Wins |-> h.wins,
     Away_Wins |-> a.wins,
     Home_Form |-> ratio(h.form_wins, R(10)),
     Away_Form |-> ratio(a.form_wins, R(10)),
     Home_Attack_Strength |-> h.goals_scored,
     Away_Attack_Strength |-> a.goals_scored]

(* "Ensure all model features present", filling 1.0 *)
ensure_features_ones(values, feature_names) ==
    values @@ [fname \in Range(feature_names) \ DOMAIN values |-> R(1)]

(* "Ensure all model features present": for fname in feature_names ... 0.0 *)
ensure_features(values, feature_names) ==
    values @@ [fname \in Range(feature_names) \ DOMAIN values |-> R(0)]

(* DataFrame([feature_values])[feature_names] with the names sorted away:  *)
(* the frame's own column order instead of the requested one               *)
select_reversed(values, feature_names) ==
    [columns |-> [j \in 1..Len(feature_names) |->
                     feature_names[Len(feature_names) + 1 - j]],
     rows |-> <<[j \in 1..Len(feature_names) |->
                     values[feature_names[Len(feature_names) + 1 - j]]]>>]

(* DataFrame([feature_values])[feature_names]: one row, the named columns *)
select_features(values, feature_names) ==
    [columns |-> feature_names,
     rows |-> <<SelectColumns(values, feature_names)>>]

(* the same with Season_encoded taken from the season argument *)
prepare_match_features_season_encoded(home_team, away_team, season, team_encoding, feature_names, df) ==
    select_features(
        ensure_features(
            [feature_values(home_team, away_team, team_encoding,
                            get_team_historical_stats(home_team, TRUE, df),
                            get_team_historical_stats(away_team, FALSE, df))
                 EXCEPT !.Season_encoded = R(season - 2000)],
            feature_names),
        feature_names)

(* prepare_match_features for a match log that could be read; season is    *)
(* accepted and not used                                                    *)
prepare_match_features(home_team, away_team, season, team_encoding, feature_names, df) ==
    select_features(
        ensure_features(
            feature_values(home_team, away_team, team_encoding,
                           get_team_historical_stats(home_team, TRUE, df),
                           get_team_historical_stats(away_team, FALSE, df)),
            feature_names),
        feature_names)

(* the names prepare_match_features computes itself *)
NativeMatchNames ==
    {"HomeTeam_le", "AwayTeam_le", "Season_encoded", "HS", "AS", "HST", "AST",
     "HF", "AF", "HC", "AC", "HY", "AY", "HR", "AR", "home_wins_L5",
     "home_goals_scored_L5", "home_goals_conceded_L5", "away_wins_L5",
     "away_goals_scored_L5", "away_goals_conceded_L5", "home_shot_accuracy",
     "away_shot_accuracy", "home_discipline", "away_discipline", "HS_per_Shots",
     "AS_per_Shots", "HF_per_Fouls", "AF_per_Fouls", "Home_Wins", "Away_Wins",
     "Home_Form", "Away_Form", "Home_Attack_Strength", "Away_Attack_Strength"}

(* the feature list of the exported model (docstring of prepare_match_features) *)
MatchModelFeatures ==
    <<"HomeTeam_le", "AwayTeam_le", "Season_encoded", "HS", "AS", "HST", "AST",
      "HF", "AF", "HC", "AC", "HY", "AY", "HR", "AR", "home_wins_L5",
      "home_goals_scored_L5", "home_goals_conceded_L5", "away_wins_L5",
      "away_goals_scored_L5", "away_goals_conceded_L5", "home_shot_accuracy",
      "away_shot_accuracy", "home_discipline", "away_discipline">>

(* names of retrained models: two the builder computes, two it does not *)
MatchNames == {"AS", "home_goals_conceded_L5", "Elo_diff"}

MatchFeatureLists == {MatchModelFeatures} \cup Seqs(MatchNames, 1, MaxFeatures)

Bo2Artifacts ==
    {[kind |-> "bo2", scaler |-> s, features |-> f,
      metadata |-> [keys |-> {}, mae |-> Missing]] :
        s \in {NoScaler} \cup
              {[present |-> TRUE, has_names |-> TRUE,
                feature_names_in_ |-> MatchModelFeatures,
                validates_names |-> v] : v \in BOOLEAN},
        f \in MatchFeatureLists}

MatchTeams == {"Arsenal", "Chelsea", "Atlantis"}

MatchSeasons == {2024, 2025}

(* predict_proba rows: [away win, draw, home win] *)
MatchProbs == {<<Rat(1, 10), Rat(2, 10), Rat(7, 10)>>,
               <<Rat(6, 10), Rat(3, 10), Rat(1, 10)>>,
               <<Rat(3, 10), Rat(4, 10), Rat(3, 10)>>,
               <<Rat(35, 100), Rat(35, 100), Rat(30, 100)>>}

(* model.predict of a classifier: the first class of highest probability *)
predicted_class(probabilities) ==
    (CHOOSE k \in DOMAIN probabilities :
        /\ \A j \in DOMAIN probabilities : RLe(probabilities[j], probabilities[k])
        /\ \A j \in 1..(k - 1) : RLt(probabilities[j], probabilities[k])) - 1

(* POST /predict-match *)
predict_match_outcome ==
    \E home_team \in MatchTeams, away_team \in MatchTeams,
       season \in MatchSeasons, exists \in BOOLEAN, df \in MatchLogs :
        /\ req = Idle
        /\ home_team # away_team
        /\ exists \/ df = <<>>
        /\ req' = [route |-> "predict_match_outcome", home_team |-> home_team,
                   away_team |-> away_team, season |-> season,
                   exists |-> exists, df |-> df]
        /\ UNCHANGED artifact
        /\ IF home_team \notin ValidTeams \/ away_team \notin ValidTeams
           THEN (* HTTPException(400) *)
                /\ loc' = NoLocals
                /\ resp' = Failure(400)
           ELSE IF ~exists
           THEN (* df stays None and load_matches_data raises FileNotFoundError *)
                /\ loc' = [NoLocals EXCEPT !.error = "FileNotFoundError",
                                           !.expected = artifact.features]
                /\ resp' = Failure(500)
           ELSE \E feature_names \in {artifact.features} :
                \E X \in {prepare_match_features(home_team, away_team, season,
                                                 TeamEncoding, feature_names, df)} :
                IF ScalerRejects(artifact, X.columns)
                THEN /\ loc' = [NoLocals EXCEPT !.error = "ValueError",
                                                !.expected = feature_names,
                                                !.X = X]
                     /\ resp' = Failure(500)
                ELSE \E probabilities \in MatchProbs :
                     /\ loc' = [NoLocals EXCEPT !.expected = feature_names,
                                                !.X = X,
                                                !.outputs = probabilities]
                     /\ resp' = [status |-> 200,
                                 prediction |-> get_outcome_label(
                                                    predicted_class(probabilities)),
                                 probabilities |->
                                     [home_win |-> probabilities[3],
                                      draw |-> probabilities[2],
                                      away_win |-> probabilities[1]],
                                 confidence |->
                                     calculate_match_confidence(probabilities)]

InitMatch ==
    /\ artifact \in Bo2Artifacts
    /\ req = Idle
    /\ loc = NoLocals
    /\ resp = NoResponse

NextMatch ==
    \/ predict_match_outcome
    \/ send_response

SpecMatch == InitMatch /\ [][NextMatch]_vars

----------------------------------------------------------------------------
(* The confidence helpers on their own: each call is one step. *)

ProbScale == 20

MaeValues ==
    {R(0), Rat(1, 2), Rat(9999, 10000), R(1), Rat(10001, 10000), Rat(115, 100),
     Rat(3, 2), Rat(19999, 10000), R(2), Rat(20001, 10000), Rat(5, 2), R(10)}

(* class probabilities in steps of 1/ProbScale that sum to 1 *)
ProbabilityLists ==
    {<<Rat(a, ProbScale), Rat(b, ProbScale), Rat(ProbScale - a - b, ProbScale)>> :
        a \in 0..ProbScale, b \in 0..ProbScale} \cap
    {<<Rat(a, ProbScale), Rat(b, ProbScale), Rat(c, ProbScale)>> :
        a \in 0..ProbScale, b \in 0..ProbScale, c \in 0..ProbScale}

call_assign_confidence_level ==
    \E mae \in MaeValues, prediction \in PredValues :
        /\ req = Idle
        /\ req' = [route |-> "assign_confidence_level", mae |-> mae,
                   prediction |-> prediction]
        /\ resp' = [status |-> 200,
                    confidence |-> assign_confidence_level(mae, prediction)]
        /\ UNCHANGED <<artifact, loc>>

call_calculate_match_confidence ==
    \E probabilities \in ProbabilityLists :
        /\ req = Idle
        /\ req' = [route |-> "calculate_match_confidence",
                   probabilities |-> probabilities]
        /\ resp' = [status |-> 200,
                    confidence |-> calculate_match_confidence(probabilities)]
        /\ UNCHANGED <<artifact, loc>>

InitConfidence ==
    /\ artifact = [kind |-> "none"]
    /\ req = Idle
    /\ loc = NoLocals
    /\ resp = NoResponse

NextConfidence ==
    \/ call_assign_confidence_level
    \/ call_calculate_match_confidence
    \/ send_response

SpecConfidence == InitConfidence /\ [][NextConfidence]_vars

----------------------------------------------------------------------------
(* Direct calls of the safe ratio helper (bo2.py 121-122).  A Missing      *)
(* numerator is None; a Missing denominator is None or NaN.                *)

RatioNumerators ==
    {Missing, R(0), R(1), R(3), R(-3), R(5), R(12), Rat(3, 2), Rat(31, 20),
     Rat(-7, 5)}

RatioDenominators ==
    {Missing, R(0), R(1), R(2), R(10), R(12), R(-4), Rat(1, 20), Rat(3, 2),
     Rat(13, 10), Rat(-5, 2)}

(* float(num) raises TypeError on None; it is only evaluated when the      *)
(* denominator passed the test                                             *)
ratio_raises(num, den) ==
    /\ ~(IsMissing(den) \/ den.n = 0)
    /\ IsMissing(num)

call_ratio ==
    \E num \in RatioNumerators, den \in RatioDenominators :
        /\ req = Idle
        /\ req' = [route |-> "ratio", num |-> num, den |-> den]
        /\ resp' = IF ratio_raises(num, den)
                   THEN [status |-> 500, error |-> "TypeError"]
                   ELSE [status |-> 200, value |-> ratio(num, den)]
        /\ UNCHANGED <<artifact, loc>>

InitRatio ==
    /\ artifact = [kind |-> "none"]
    /\ req = Idle
    /\ loc = NoLocals
    /\ resp = NoResponse

NextRatio ==
    \/ call_ratio
    \/ send_response

SpecRatio == InitRatio /\ [][NextRatio]_vars

----------------------------------------------------------------------------
(* app/api/bo4.py : player recommendations *)

MaxPlayers == 3

(* a row of players_24-25.csv.  Pos is the set of position codes the cell  *)
(* holds ("DF,MF" is {"DF", "MF"}, an empty cell is {}); a numeric cell    *)
(* that is empty is Missing                                                *)
PlayerRow(player, squad, pos, age, min, comp, mv, n90, gls, ast, tkl, int) ==
    [Player |-> player, Squad |-> squad, Pos |-> pos, Age |-> age, Min |-> min,
     Comp |-> comp, Market_Value |-> mv, N90s |-> n90, Gls |-> gls, Ast |-> ast,
     Tkl |-> tkl, Int |-> int]

PlayerRows ==
    <<PlayerRow("Saka", "Arsenal", {"FW"}, R(21), R(900), "eng Premier League",
               R(10), R(10), R(4), R(2), R(5), R(1)),
     PlayerRow("Saka", "Sevilla", {"FW"}, R(21), R(1500), "es La Liga",
               R(12), Rat(50, 3), R(6), Missing, Missing, R(2)),
     PlayerRow("Saka", "Arsenal", {"FW"}, R(30), R(3000), "eng Premier League",
               R(12), Rat(100, 3), R(9), R(9), R(20), R(10)),
     PlayerRow("Musiala", "Bayern", {"FW", "MF"}, R(22), R(1500),
               "de Bundesliga", R(30), Rat(50, 3), R(5), R(5), R(25), Missing),
     PlayerRow("Yoro", "Lille", {"FW", "DF"}, R(19), Missing, "fr Ligue 1",
               Missing, Missing, Missing, Missing, R(3), R(4)),
     PlayerRow("Bakayoko", "PSV", {"FW"}, R(20), R(2000), "nl Eredivisie",
               R(30), Rat(200, 9), R(12), R(9), R(8), R(6))>>

(* the rows of pool at the positions in picked, in the order of pool *)
RECURSIVE pick_rows(_, _)
pick_rows(pool, picked) ==
    IF pool = <<>> THEN <<>>
    ELSE pick_rows(SubSeq(pool, 1, Len(pool) - 1), picked)
         \o (IF Len(pool) \in picked THEN <<pool[Len(pool)]>> ELSE <<>>)

(* the files a request may find: no file, or up to MaxPlayers of the rows  *)
PlayerFiles ==
    {[exists |-> FALSE, rows |-> <<>>]} \cup
    {[exists |-> TRUE, rows |-> pick_rows(PlayerRows, picked)] :
        picked \in {I \in SUBSET DOMAIN PlayerRows :
                        Cardinality(I) <= MaxPlayers}}

(* str.lower() of the position values a request may carry *)
Lower == [Forward |-> "forward",
          goalkeeper |-> "goalkeeper", striker |-> "striker"]

valid_positions == {"defender", "midfielder", "forward", "goalkeeper"}

pos_map == [forward |-> "FW", midfielder |-> "MF", defender |-> "DF",
            goalkeeper |-> "GK"]

(* Comp cells of the file and the league name each one holds *)
LeagueOf == [c \in {"eng Premier League", "es La Liga", "de Bundesliga",
                    "it Serie A", "fr Ligue 1", "nl Eredivisie"} |->
                CASE c = "eng Premier League" -> "Premier League"
                  [] c = "es La Liga" -> "La Liga"
                  [] c = "de Bundesliga" -> "Bundesliga"
                  [] c = "it Serie A" -> "Serie A"
                  [] c = "fr Ligue 1" -> "Ligue 1"
                  [] OTHER -> "Eredivisie"]

top_leagues == {"Premier League", "La Liga", "Bundesliga", "Serie A", "Ligue 1"}

(* pd.to_numeric(..., errors='coerce').fillna(0) *)
fillna(v, default) == IF IsMissing(v) THEN default ELSE v

(* count / nineties with the guard left out of the count: the count itself *)
(* where nineties is positive                                              *)
per_90_undivided(count, n90) ==
    IF RLt(R(0), n90) THEN fillna(count, R(0)) ELSE R(0)

(* np.where(df['90s'] > 0, count.fillna(0) / df['90s'], 0) *)
per_90(count, n90) ==
    IF RLt(R(0), n90) THEN RDiv(fillna(count, R(0)), n90) ELSE R(0)

(* the derived and coerced columns of one row (bo4.py 62-139) *)
derive_player(row) ==
    LET n90 == fillna(row.N90s, R(0))
        goals == per_90(row.Gls, n90)
        assists == per_90(row.Ast, n90)
        tkl == fillna(row.Tkl, R(0))
        int == fillna(row.Int, R(0))
    IN  [row EXCEPT !.N90s = n90,
                    !.Tkl = tkl,
                    !.Int = int,
                    !.Market_Value = fillna(row.Market_Value, R(0)),
                    !.Min = fillna(row.Min, R(0)),
                    !.Age = fillna(row.Age, R(0))]
        @@ [Goals_per_90 |-> goals, Assists_per_90 |-> assists,
            Productivity_Score |-> RAdd(goals, assists),
            Tackles_per_90 |-> per_90(tkl, n90),
            Interceptions_per_90 |-> per_90(int, n90)]

(* the position, age, minutes and league filters (bo4.py 46-60) *)
passes_filters(row, pos_code, max_age, min_minutes) ==
    /\ pos_code \in row.Pos
    /\ max_age # 0 => (~IsMissing(row.Age) /\ RLe(row.Age, R(max_age)))
    /\ min_minutes # 0 => (~IsMissing(row.Min) /\ RLe(R(min_minutes), row.Min))
    /\ LeagueOf[row.Comp] \in top_leagues

(* df[mask] for the four masks: the rows that pass, in file order *)
RECURSIVE filter_players(_, _, _, _)
filter_players(df, pos_code, max_age, min_minutes) ==
    IF df = <<>> THEN <<>>
    ELSE (IF passes_filters(df[1], pos_code, max_age, min_minutes)
          THEN <<df[1]>> ELSE <<>>)
         \o filter_players(Tail(df), pos_code, max_age, min_minutes)

(* the rows in ascending order of minutes *)
sort_values_min_ascending(df) ==
    {s \in [DOMAIN df -> Range(df)] :
        /\ Range(s) = Range(df)
        /\ \A i, j \in DOMAIN s : i < j => RLe(s[i].Min, s[j].Min)}

(* sort_values('Min', ascending=False): quicksort, which is not stable, so *)
(* rows of equal minutes come out in any order                             *)
sort_values_min(df) ==
    {s \in [DOMAIN df -> Range(df)] :
        /\ Range(s) = Range(df)
        /\ \A i, j \in DOMAIN s : i < j => RLe(s[j].Min, s[i].Min)}

(* drop_duplicates(subset=['Player'], keep='first') *)
RECURSIVE drop_duplicates(_)
drop_duplicates(df) ==
    IF df = <<>> THEN <<>>
    ELSE LET n == Len(df)
             head == drop_duplicates(SubSeq(df, 1, n - 1))
         IN  IF \E i \in DOMAIN head : head[i].Player = df[n].Player
             THEN head ELSE Append(head, df[n])

(* get_player_data_from_dataset after load_player_data: the frames it may *)
(* return for the file df                                                  *)
get_player_data_from_dataset(df, position, max_age, min_minutes) ==
    IF position \notin DOMAIN pos_map THEN {<<>>}
    ELSE LET kept == filter_players(df, pos_map[position], max_age, min_minutes)
             derived == [i \in DOMAIN kept |-> derive_player(kept[i])]
         IN  {drop_duplicates(sorted) : sorted \in sort_values_min(derived)}

(* prepare_player_features: the expected columns, 0 for one the frame lacks *)
prepare_player_features(df, feature_names) ==
    [i \in DOMAIN df |->
        [j \in DOMAIN feature_names |->
            IF feature_names[j] \in DOMAIN df[i]
            THEN fillna(df[i][feature_names[j]], R(0))
            ELSE R(0)]]

(* a stable sort on predicted_score alone, descending *)
RECURSIVE sort_by_score_only(_)
sort_by_score_only(df) ==
    IF df = <<>> THEN <<>>
    ELSE LET n == Len(df)
             last == df[n]
             head == sort_by_score_only(SubSeq(df, 1, n - 1))
             before == {i \in DOMAIN head :
                          RLe(last.predicted_score, head[i].predicted_score)}
             k == Cardinality(before)
         IN  SubSeq(head, 1, k) \o <<last>> \o SubSeq(head, k + 1, n - 1)

(* sort_values(by=['predicted_score', 'Market_Value'], ascending=[False,   *)
(* False]): a stable sort on the two keys, both descending                 *)
RECURSIVE sort_by_score_and_value(_)
sort_by_score_and_value(df) ==
    IF df = <<>> THEN <<>>
    ELSE LET n == Len(df)
             last == df[n]
             head == sort_by_score_and_value(SubSeq(df, 1, n - 1))
             before == {i \in DOMAIN head :
                          \/ RLt(last.predicted_score, head[i].predicted_score)
                          \/ /\ last.predicted_score = head[i].predicted_score
                             /\ RLe(last.Market_Value, head[i].Market_Value)}
             k == Cardinality(before)
         IN  SubSeq(head, 1, k) \o <<last>> \o SubSeq(head, k + 1, n - 1)

(* head(limit) *)
head_rows(df, limit) == SubSeq(df, 1, IF limit < Len(df) THEN limit ELSE Len(df))

(* the PlayerRecommendation built for a row (bo4.py 236-303); of the stats *)
(* dict the entries common to every position, and the per-90 entries of a  *)
(* forward                                                                 *)
recommendation(rank, row, position) ==
    [rank |-> rank, player |-> row.Player, squad |-> row.Squad,
     league |-> LeagueOf[row.Comp], age |-> Trunc(row.Age),
     market_value |-> row.Market_Value,
     predicted_score |-> round(row.predicted_score, 3),
     stats |-> (IF position = "forward"
                THEN [Goals_90 |-> round(row.Goals_per_90, 2),
                      Assists_90 |-> round(row.Assists_per_90, 2)]
                ELSE <<>>)
               @@ [Minutes |-> Trunc(row.Min),
                   Played_90s |-> round(row.N90s, 1)]]

(* model artifacts bo4_<position>_lgb.pkl; loadable is whether joblib can  *)
(* read the file                                                           *)
Bo4Artifacts ==
    {[kind |-> "bo4", loadable |-> l, scaler |-> FALSE,
      features |-> <<"Goals_per_90", "Age">>] : l \in BOOLEAN} \cup
    {[kind |-> "bo4", loadable |-> l, scaler |-> TRUE,
      features |-> <<"Productivity_Score", "xG", "Min">>] : l \in BOOLEAN}

(* outputs of model.predict for one player *)
ScoreValues == {Rat(1, 2), Rat(5004, 10000), Rat(9, 10)}

PlayerMaxAges == {0, 40}

PlayerMinMinutes == {0, 1000}

PlayerLimits == {1, MaxPlayers}

PlayerFailure(code) == [status |-> code, recommendations |-> <<>>]

NoPlayerLocals == [players_df |-> <<>>, X |-> <<>>, sorted |-> <<>>]

(* GET /players/recommendations.  max_age 0 is the absent parameter.       *)
get_player_recommendations ==
    /\ req = Idle
    /\ \E position \in DOMAIN Lower, limit \in PlayerLimits,
          max_age \in PlayerMaxAges, min_minutes \in PlayerMinMinutes,
          file \in PlayerFiles :
        /\ req' = [route |-> "get_player_recommendations",
                   position |-> position, limit |-> limit,
                   max_age |-> max_age, min_minutes |-> min_minutes,
                   exists |-> file.exists, df |-> file.rows]
        /\ UNCHANGED artifact
        /\ \E position_lower \in {Lower[position]} :
           \E age \in {IF max_age # 0 THEN max_age
                        ELSE IF position_lower = "goalkeeper" THEN 26 ELSE 23} :
              IF position_lower \notin valid_positions
              THEN resp' = PlayerFailure(400) /\ loc' = NoPlayerLocals
              ELSE IF ~artifact.loadable \/ ~file.exists
              THEN resp' = PlayerFailure(500) /\ loc' = NoPlayerLocals
              ELSE \E players_df \in get_player_data_from_dataset(
                                         file.rows, position_lower, age, min_minutes) :
                   \E X \in {prepare_player_features(players_df,
                                                     artifact.features)} :
                   \E predictions \in [DOMAIN players_df -> ScoreValues] :
                   \E scored \in {[i \in DOMAIN players_df |->
                                     players_df[i] @@
                                     [predicted_score |-> predictions[i]]]} :
                   \E sorted \in {sort_by_score_and_value(scored)} :
                   \E top_players \in {head_rows(sorted, limit)} :
                      /\ loc' = [players_df |-> players_df, X |-> X,
                                 sorted |-> sorted]
                      /\ resp' = [status |-> 200,
                                  recommendations |->
                                      [k \in DOMAIN top_players |->
                                          recommendation(k, top_players[k],
                                                         position_lower)]]

InitPlayers ==
    /\ artifact \in Bo4Artifacts
    /\ req = Idle
    /\ loc = NoLocals
    /\ resp = NoResponse

NextPlayers ==
    \/ get_player_recommendations
    \/ send_response

SpecPlayers == InitPlayers /\ [][NextPlayers]_vars

----------------------------------------------------------------------------
(* app/core/preprocessing.py : TextPreprocessor.  A text is the sequence   *)
(* of its characters.                                                      *)

MaxChunks == 2

MaxDocs == 2

UpperCase ==
    <<"A", "B", "C", "D", "E", "F", "G", "H", "I", "J", "K", "L", "M", "N", "O",
      "P", "Q", "R", "S", "T", "U", "V", "W", "X", "Y", "Z">>

LowerCase ==
    <<"a", "b", "c", "d", "e", "f", "g", "h", "i", "j", "k", "l", "m", "n", "o",
      "p", "q", "r", "s", "t", "u", "v", "w", "x", "y", "z">>

isupper(c) == c \in Range(UpperCase)

(* str.lower() of one character *)
lower_char(c) ==
    IF isupper(c) THEN LowerCase[CHOOSE i \in DOMAIN UpperCase : UpperCase[i] = c]
    ELSE c

(* str.upper() of one character *)
upper_char(c) ==
    IF c \in Range(LowerCase)
    THEN UpperCase[CHOOSE i \in DOMAIN LowerCase : LowerCase[i] = c]
    ELSE c

lower(text) == [i \in DOMAIN text |-> lower_char(text[i])]

upper(text) == [i \in DOMAIN text |-> upper_char(text[i])]

(* text.count(c) *)
count(text, c) == Cardinality({i \in DOMAIN text : text[i] = c})

(* word in text *)
contains(text, word) ==
    \E i \in 1..(Len(text) - Len(word) + 1) :
        SubSeq(text, i, i + Len(word) - 1) = word

(* sep.join(parts) *)
RECURSIVE join(_, _)
join(parts, sep) ==
    IF parts = <<>> THEN <<>>
    ELSE IF Len(parts) = 1 THEN parts[1]
    ELSE parts[1] \o sep \o join(Tail(parts), sep)

(* text.split(): the runs of characters between blanks *)
RECURSIVE split(_)
split(text) ==
    IF text = <<>> THEN <<>>
    ELSE IF text[1] = " " THEN split(Tail(text))
    ELSE LET blanks == {i \in DOMAIN text : text[i] = " "}
             stop == IF blanks = {} THEN Len(text) + 1
                     ELSE CHOOSE i \in blanks : \A j \in blanks : i <= j
         IN  <<SubSeq(text, 1, stop - 1)>>
             \o split(SubSeq(text, stop + 1, Len(text)))

(* text.strip() *)
RECURSIVE strip(_)
strip(text) ==
    IF text = <<>> THEN <<>>
    ELSE IF text[1] = " " THEN strip(Tail(text))
    ELSE IF text[Len(text)] = " " THEN strip(SubSeq(text, 1, Len(text) - 1))
    ELSE text

sensational_words ==
    <<<<"e", "x", "c", "l", "u", "s", "i", "v", "e">>,
      <<"s", "h", "o", "c", "k", "i", "n", "g">>,
      <<"b", "o", "m", "b", "s", "h", "e", "l", "l">>,
      <<"r", "e", "v", "e", "a", "l", "e", "d">>,
      <<"s", "l", "a", "m", "m", "e", "d">>,
      <<"b", "l", "a", "s", "t", "s">>,
      <<"s", "t", "u", "n", "n", "i", "n", "g">>,
      <<"m", "a", "s", "s", "i", "v", "e">>>>

(* the marker of a sensational keyword: _SENSATIONAL_<WORD>_ *)
sensational_marker(word) ==
    <<"_", "S", "E", "N", "S", "A", "T", "I", "O", "N", "A", "L", "_">> \o upper(word) \o <<"_">>

MULTIEXCLAIM == <<"_", "M", "U", "L", "T", "I", "E", "X", "C", "L", "A", "I", "M", "_">>

MULTIQUESTION == <<"_", "M", "U", "L", "T", "I", "Q", "U", "E", "S", "T", "I", "O", "N", "_">>

HIGHCAPS == <<"_", "H", "I", "G", "H", "C", "A", "P", "S", "_">>

(* the punctuation markers of add_style_features *)
punctuation_features(text) ==
    (IF count(text, "!") > 2 THEN <<MULTIEXCLAIM>> ELSE <<>>)
    \o (IF count(text, "?") > 2 THEN <<MULTIQUESTION>> ELSE <<>>)

(* caps_ratio = uppercase characters / (len(text) + 1) > 0.05 *)
caps_features(text) ==
    IF 100 * Cardinality({i \in DOMAIN text : isupper(text[i])})
       > 5 * (Len(text) + 1)
    THEN <<HIGHCAPS>> ELSE <<>>

(* the keyword loop, matching on the text as it is *)
RECURSIVE keyword_features_cased(_, _)
keyword_features_cased(text, words) ==
    IF words = <<>> THEN <<>>
    ELSE (IF contains(text, words[1])
          THEN <<sensational_marker(words[1])>> ELSE <<>>)
         \o keyword_features_cased(text, Tail(words))

(* for word in sensational_words: if word in text_str.lower() *)
RECURSIVE keyword_features(_, _)
keyword_features(text, words) ==
    IF words = <<>> THEN <<>>
    ELSE (IF contains(lower(text), words[1])
          THEN <<sensational_marker(words[1])>> ELSE <<>>)
         \o keyword_features(text, Tail(words))

(* the list `features` that add_style_features joins *)
style_features(text) ==
    IF text = <<>> THEN <<>>
    ELSE punctuation_features(text) \o caps_features(text)
         \o keyword_features(text, sensational_words)

add_style_features(text) == join(style_features(text), <<" ">>)

(* english stopwords of NLTK that the model's texts use *)
EnglishStopwords ==
    {<<"t", "h", "e">>,
     <<"i", "s">>,
     <<"a", "n", "d">>,
     <<"w", "a", "s">>,
     <<"t", "o">>,
     <<"n", "o", "t">>,
     <<"n", "o">>,
     <<"a", "g", "a", "i", "n", "s", "t">>}

negations ==
    {<<"n", "o", "t">>,
     <<"n", "o">>,
     <<"n", "e", "v", "e", "r">>,
     <<"a", "g", "a", "i", "n", "s", "t">>}

(* re.sub(r'http\S+|www\S+|\S+@\S+|<[^>]+>|@\w+|#\w+', '', text) on one run *)
(* of non-blank characters over letters, '!', '?' and '@': a run with an   *)
(* '@' inside is an e-mail address and goes; a leading '@' with the        *)
(* letters after it is a mention and goes                                  *)
remove_patterns(run) ==
    IF \E i \in 2..(Len(run) - 1) : run[i] = "@" THEN <<>>
    ELSE IF Len(run) >= 2 /\ run[1] = "@" /\ run[2] \in Range(LowerCase)
    THEN LET others == {i \in 2..Len(run) : run[i] \notin Range(LowerCase)}
             stop == IF others = {} THEN Len(run) + 1
                     ELSE CHOOSE i \in others : \A j \in others : i <= j
         IN  SubSeq(run, stop, Len(run))
    ELSE run

(* re.sub(r'[^a-z\s\.\!\?]', ' ', text) *)
keep_letters(text) ==
    [i \in DOMAIN text |->
        IF text[i] \in Range(LowerCase) \cup {" ", ".", "!", "?"}
        THEN text[i] ELSE " "]

(* TextPreprocessor.clean *)
clean(text) ==
    IF text = <<>> THEN <<>>
    ELSE LET runs == split(lower(text))
             kept == [i \in DOMAIN runs |-> remove_patterns(runs[i])]
         IN  join(split(keep_letters(join(kept, <<" ">>))), <<" ">>)

(* word_tokenize on one run of a cleaned text: each '!' and '?' is a token *)
(* of its own, the characters between them form a word                    *)
RECURSIVE tokenize_run(_)
tokenize_run(run) ==
    IF run = <<>> THEN <<>>
    ELSE IF run[1] \in {"!", "?"} THEN <<<<run[1]>>>> \o tokenize_run(Tail(run))
    ELSE LET marks == {i \in DOMAIN run : run[i] \in {"!", "?"}}
             stop == IF marks = {} THEN Len(run) + 1
                     ELSE CHOOSE i \in marks : \A j \in marks : i <= j
         IN  <<SubSeq(run, 1, stop - 1)>>
             \o tokenize_run(SubSeq(run, stop, Len(run)))

RECURSIVE tokenize_runs(_)
tokenize_runs(runs) ==
    IF runs = <<>> THEN <<>>
    ELSE tokenize_run(runs[1]) \o tokenize_runs(Tail(runs))

word_tokenize(text) == tokenize_runs(split(text))

(* WordNetLemmatizer.lemmatize(w): the noun lemma *)
wordnet_lemma(w) ==
    IF w = <<"c", "l", "u", "b", "s">> THEN <<"c", "l", "u", "b">>
    ELSE IF w = <<"b", "l", "a", "s", "t", "s">> THEN <<"b", "l", "a", "s", "t">>
    ELSE w

(* the preprocessors a process may hold.  constructed: __init__ found the  *)
(* lemmatizer and the stopwords; punkt, wordnet: word_tokenize and         *)
(* lemmatizer.lemmatize find their resource when called                    *)
TextPreprocessors ==
    {[kind |-> "TextPreprocessor", constructed |-> c, punkt |-> p, wordnet |-> w] :
        c \in BOOLEAN, p \in BOOLEAN, w \in BOOLEAN}

(* self.stop_words *)
stop_words(self) ==
    IF self.constructed THEN EnglishStopwords \ negations ELSE {}

(* the tokens that reach the lemmatizer: not a stopword, longer than 2 *)
RECURSIVE kept_tokens(_, _)
kept_tokens(self, tokens) ==
    IF tokens = <<>> THEN <<>>
    ELSE (IF tokens[1] \notin stop_words(self) /\ Len(tokens[1]) > 2
          THEN <<tokens[1]>> ELSE <<>>)
         \o kept_tokens(self, Tail(tokens))

(* lemmatize raised inside its try block *)
lemmatize_failed(self, text) ==
    \/ ~self.punkt
    \/ ~self.wordnet /\ kept_tokens(self, word_tokenize(text)) # <<>>

(* the same without the except branch: what was tokenized so far *)
lemmatize_partial(self, text) ==
    IF text = <<>> \/ ~self.constructed THEN text
    ELSE IF lemmatize_failed(self, text) THEN <<>>
    ELSE LET tokens == kept_tokens(self, word_tokenize(text))
         IN  join([i \in DOMAIN tokens |-> wordnet_lemma(tokens[i])], <<" ">>)

(* TextPreprocessor.lemmatize *)
lemmatize(self, text) ==
    IF text = <<>> \/ ~self.constructed THEN text
    ELSE IF lemmatize_failed(self, text) THEN text
    ELSE LET tokens == kept_tokens(self, word_tokenize(text))
         IN  join([i \in DOMAIN tokens |-> wordnet_lemma(tokens[i])], <<" ">>)

(* one document, the markers taken from the cleaned text *)
transform_one_style_of_cleaned(self, text) ==
    LET cleaned == clean(text)
        lemmatized == lemmatize(self, cleaned)
        style == add_style_features(cleaned)
    IN  [cleaned |-> cleaned, lemmatized |-> lemmatized, style |-> style,
         processed |-> strip(lemmatized \o <<" ">> \o style)]

(* one document of TextPreprocessor.transform *)
transform_one(self, text) ==
    LET cleaned == clean(text)
        lemmatized == lemmatize(self, cleaned)
        style == add_style_features(text)
    IN  [cleaned |-> cleaned, lemmatized |-> lemmatized, style |-> style,
         processed |-> strip(lemmatized \o <<" ">> \o style)]

(* the pieces texts are made of *)
TextChunks ==
    {<<"S", "H", "O", "C", "K", "I", "N", "G">>,
     <<"E", "X", "C", "L", "U", "S", "I", "V", "E">>,
     <<"r", "e", "v", "e", "a", "l", "e", "d">>,
     <<"B", "o", "m", "b", "s", "h", "e", "l", "l">>,
     <<"s", "l", "a", "m", "m", "e", "d">>,
     <<"B", "L", "A", "S", "T", "S">>,
     <<"s", "t", "u", "n", "n", "i", "n", "g", "l", "y">>,
     <<"m", "a", "s", "s", "i", "v", "e", "l", "y">>,
     <<"C", "l", "u", "b">>,
     <<"n", "o", "t">>,
     <<"!", "!">>,
     <<"!", "!", "!">>,
     <<"?", "?">>,
     <<"?", "?", "?">>,
     <<" ">>}

RECURSIVE ChunkTexts(_)
ChunkTexts(n) ==
    IF n = 0 THEN {<<>>}
    ELSE ChunkTexts(n - 1)
         \cup {t \o c : t \in ChunkTexts(n - 1), c \in TextChunks}

(* documents handed to lemmatize and transform *)
DocTexts ==
    {<<>>,
     <<"T", "h", "e", " ", "c", "l", "u", "b", "s", " ", "n", "o", "t", " ", "r", "e", "v", "e", "a", "l", "e", "d", "!", "!", "!">>,
     <<"C", "l", "u", "b", "@", "f", "a", "n", " ", "?">>,
     <<"@", "f", "a", "n", " ", "S", "H", "O", "C", "K", "I", "N", "G", " ", "n", "e", "w", "s">>,
     <<"t", "h", "e", " ", "i", "s">>,
     <<"N", "o", " ", "t", "o">>}

call_add_style_features ==
    /\ req = Idle
    /\ \E text \in ChunkTexts(MaxChunks) :
          /\ req' = [route |-> "add_style_features", text |-> text]
          /\ resp' = [status |-> 200, features |-> style_features(text),
                      value |-> add_style_features(text)]
          /\ UNCHANGED <<artifact, loc>>

call_lemmatize ==
    /\ req = Idle
    /\ \E text \in {clean(d) : d \in DocTexts} :
          /\ req' = [route |-> "lemmatize", text |-> text]
          /\ resp' = [status |-> 200, value |-> lemmatize(artifact, text)]
          /\ UNCHANGED <<artifact, loc>>

call_transform ==
    /\ req = Idle
    /\ \E texts \in Seqs(DocTexts, 0, MaxDocs) :
       \E stages \in {[i \in DOMAIN texts |-> transform_one(artifact, texts[i])]} :
          /\ req' = [route |-> "transform", texts |-> texts]
          /\ loc' = [stages |-> stages]
          /\ resp' = [status |-> 200,
                      results |-> [i \in DOMAIN stages |-> stages[i].processed]]
          /\ UNCHANGED artifact

InitText ==
    /\ artifact \in TextPreprocessors
    /\ req = Idle
    /\ loc = NoLocals
    /\ resp = NoResponse

NextText ==
    \/ call_add_style_features
    \/ call_lemmatize
    \/ call_transform
    \/ send_response

SpecText == InitText /\ [][NextText]_vars

----------------------------------------------------------------------------
(* app/api/bo3.py : GET /team-style/{team_name}.  Of the columns of        *)
(* team_season_aggregated.csv the model keeps the ones the derived         *)
(* features are computed from and Win_Rate for the ones passed through.    *)

MaxStyleRows == 2

StyleRow(team, season, season_encoded, avg_goals, avg_shots, avg_corners, fouls, matches, yellow, red, win_rate) ==
    [Team |-> team, Season |-> season, Season_encoded |-> season_encoded,
     Avg_Goals_Scored |-> avg_goals, Avg_Shots |-> avg_shots,
     Avg_Corners |-> avg_corners, Fouls |-> fouls,
     Matches_Played |-> matches, Yellow_Cards |-> yellow,
     Red_Cards |-> red, Win_Rate |-> win_rate]

(* rows of the dataset: a current season, an older season of the same      *)
(* team, a team without shots, fouls or matches, a row with an empty cell  *)
(* and a second spelling of a season with the same encoding                *)
StyleRows ==
    << StyleRow("Arsenal", "2024-25", 24, R(2), R(15), R(6), R(380), R(38),
                R(60), R(2), Rat(6, 10)),
       StyleRow("Arsenal", "2023-24", 23, R(1), R(10), R(5), R(400), R(38),
                R(50), R(0), Rat(1, 2)),
       StyleRow("Chelsea", "2023-24", 23, R(0), R(0), R(0), R(0), R(0),
                R(0), R(0), R(0)),
       StyleRow("Leeds", "2022-23", 22, R(1), Missing, R(4), R(420), R(38),
                R(70), R(3), Rat(1, 4)),
       StyleRow("Chelsea", "2023/24", 23, R(1), R(12), R(4), R(300), R(38),
                R(40), R(1), Rat(1, 2)) >>

(* DATA_PATH: no file, or a file of up to MaxStyleRows of the rows *)
StyleFiles ==
    {[exists |-> FALSE, rows |-> <<>>]} \cup
    {[exists |-> TRUE, rows |-> pick_rows(StyleRows, picked)] :
        picked \in {I \in SUBSET DOMAIN StyleRows :
                        Cardinality(I) <= MaxStyleRows}}

(* the team_name path parameter; no dataset has a row of Atlantis *)
StyleTeams == {"Arsenal", "Chelsea", "Leeds", "Atlantis"}

StyleSeasons == {"2025-26", "2024-25", "2023-24"}

(* _get_all_teams_from_data: the handler only tests membership in the      *)
(* sorted list, so the list is given as the set of its elements            *)
get_all_teams_from_data(file) ==
    IF ~file.exists THEN {}
    ELSE {file.rows[i].Team : i \in DOMAIN file.rows}

(* df[mask] *)
RECURSIVE rows_where(_, _, _)
rows_where(df, column, value) ==
    IF df = <<>> THEN <<>>
    ELSE LET n == Len(df)
             head == rows_where(SubSeq(df, 1, n - 1), column, value)
         IN  IF df[n][column] = value THEN Append(head, df[n]) ELSE head

(* the same sorted ascending *)
sort_values_season_encoded_ascending(df) ==
    {s \in [DOMAIN df -> Range(df)] :
        /\ Range(s) = Range(df)
        /\ \A i, j \in DOMAIN s :
              i < j => s[i].Season_encoded <= s[j].Season_encoded}

(* sort_values('Season_encoded', ascending=False): quicksort, rows of the  *)
(* same encoding come out in any order                                     *)
sort_values_season_encoded(df) ==
    {s \in [DOMAIN df -> Range(df)] :
        /\ Range(s) = Range(df)
        /\ \A i, j \in DOMAIN s :
              i < j => s[j].Season_encoded <= s[i].Season_encoded}

(* drop_duplicates('Team') *)
RECURSIVE drop_duplicates_team(_)
drop_duplicates_team(df) ==
    IF df = <<>> THEN <<>>
    ELSE LET n == Len(df)
             head == drop_duplicates_team(SubSeq(df, 1, n - 1))
         IN  IF \E i \in DOMAIN head : head[i].Team = df[n].Team
             THEN head ELSE Append(head, df[n])

NoStyleRow == [Team |-> ""]

(* _load_team_row: the outcomes of one call; raised is the status of the   *)
(* HTTPException or 0                                                      *)
load_team_row(file, team, season) ==
    IF ~file.exists THEN {[raised |-> 500, r |-> NoStyleRow]}
    ELSE LET of_team == rows_where(file.rows, "Team", team)
             row == rows_where(of_team, "Season", season)
         IN  IF row # <<>> THEN {[raised |-> 0, r |-> row[1]]}
             ELSE IF of_team = <<>> THEN {[raised |-> 400, r |-> NoStyleRow]}
             ELSE {[raised |-> 0, r |-> s[1]] :
                      s \in sort_values_season_encoded(of_team)}

(* a / b of two floats, not-a-number passed through *)
py_div(a, b) == IF IsMissing(a) \/ IsMissing(b) THEN Missing ELSE RDiv(a, b)

(* a + b of two floats *)
py_add(a, b) == IF IsMissing(a) \/ IsMissing(b) THEN Missing ELSE RAdd(a, b)

(* x == 0: false for not-a-number *)
is_zero(x) == ~IsMissing(x) /\ x.n = 0

(* 0.0 if den == 0 else num / den *)
zero_or_div(num, den) == IF is_zero(den) THEN R(0) ELSE py_div(num, den)

(* prepare_clustering_features on the row r *)
prepare_clustering_features(r) ==
    [Avg_Goals_Scored |-> r.Avg_Goals_Scored,
     Avg_Shots |-> r.Avg_Shots,
     Goals_per_Shot |-> zero_or_div(r.Avg_Goals_Scored, r.Avg_Shots),
     Avg_Corners |-> r.Avg_Corners,
     Corners_per_Shot |-> zero_or_div(r.Avg_Corners, r.Avg_Shots),
     Fouls_per_Match |-> zero_or_div(r.Fouls, r.Matches_Played),
     Yellow_per_Match |-> zero_or_div(r.Yellow_Cards, r.Matches_Played),
     Red_per_Match |-> zero_or_div(r.Red_Cards, r.Matches_Played),
     Cards_per_Foul |-> zero_or_div(py_add(r.Yellow_Cards, r.Red_Cards),
                                    r.Fouls),
     Win_Rate |-> r.Win_Rate]

(* [f for f in feature_names if f in X.columns] *)
available_features(feature_names, features) ==
    SelectColumns(features,
                  SelectSeq(feature_names, LAMBDA f : f \in DOMAIN features))

(* scaler.transform and model.predict raise when a feature the model was   *)
(* fitted on is absent or a value is not a number                          *)
predict_raises(X, feature_names) ==
    \/ Len(X) # Len(feature_names)
    \/ \E i \in DOMAIN X : IsMissing(X[i])

(* model.predict: the clusters of the KMeans model *)
ClusterIds == 0..4

(* get_cluster_label *)
get_cluster_label(cluster_id) ==
    IF cluster_id = 0 THEN "Attacking"
    ELSE IF cluster_id = 1 THEN "Defensive"
    ELSE IF cluster_id = 2 THEN "Possession"
    ELSE IF cluster_id = 3 THEN "High-Press"
    ELSE IF cluster_id = 4 THEN "Pragmatic"
    ELSE "Unknown"

(* the rows find_similar_teams iterates over *)
season_rows(df, season) ==
    LET season_df == rows_where(df, "Season", season)
    IN  IF season_df # <<>> THEN {season_df}
        ELSE {drop_duplicates_team(s) : s \in sort_values_season_encoded(df)}

(* whether the cluster of a row's team can be predicted in the loop *)
can_cluster(file, team, season, feature_names) ==
    \E o \in load_team_row(file, team, season) :
        /\ o.raised = 0
        /\ ~predict_raises(available_features(feature_names,
                               prepare_clustering_features(o.r)),
                           feature_names)

(* find_similar_teams: the lists it may return.  Each other team of the    *)
(* season is kept when its predicted cluster is cluster_id and skipped     *)
(* when it is another cluster or the prediction raises.                    *)
find_similar_teams(current_team, season, file, feature_names) ==
    UNION {{pick_rows([i \in DOMAIN df |-> df[i].Team], kept) :
               kept \in {I \in SUBSET DOMAIN df :
                            /\ Cardinality(I) <= 5
                            /\ \A i \in I :
                                 /\ df[i].Team # current_team
                                 /\ can_cluster(file, df[i].Team, season,
                                                feature_names)}} :
           df \in season_rows(file.rows, season)}

(* bo3_kmeans_clustering.pkl; loadable is whether joblib can read it *)
Bo3Artifacts ==
    {[kind |-> "bo3", loadable |-> l, scaler |-> s, features |-> f] :
        l \in BOOLEAN, s \in BOOLEAN,
        f \in {<<"Avg_Goals_Scored", "Goals_per_Shot", "Fouls_per_Match">>,
               <<"Win_Rate", "Possession">>}}

StyleFailure(code) == [status |-> code, similar_teams |-> <<>>]

NoStyleLocals == [valid_teams |-> {}, r |-> NoStyleRow, X |-> <<>>]

(* GET /team-style/{team_name} *)
get_team_tactical_style ==
    /\ req = Idle
    /\ \E team_name \in StyleTeams, season \in StyleSeasons,
          file \in StyleFiles :
        /\ req' = [route |-> "get_team_tactical_style",
                   team_name |-> team_name, season |-> season,
                   exists |-> file.exists, df |-> file.rows]
        /\ UNCHANGED artifact
        /\ \E valid_teams \in {get_all_teams_from_data(file)} :
           IF ~artifact.loadable
           THEN (* load_bo3 raises; except Exception *)
                /\ loc' = NoStyleLocals
                /\ resp' = StyleFailure(500)
           ELSE IF team_name \notin valid_teams
           THEN (* HTTPException(400) "Invalid team name" *)
                /\ loc' = [NoStyleLocals EXCEPT !.valid_teams = valid_teams]
                /\ resp' = StyleFailure(400)
           ELSE \E o \in load_team_row(file, team_name, season) :
                IF o.raised # 0
                THEN /\ loc' = [NoStyleLocals EXCEPT
                                    !.valid_teams = valid_teams]
                     /\ resp' = StyleFailure(o.raised)
                ELSE \E raw_stats \in {prepare_clustering_features(o.r)} :
                     \E X \in {available_features(artifact.features,
                                                  raw_stats)} :
                        /\ loc' = [valid_teams |-> valid_teams, r |-> o.r,
                                   X |-> X]
                        /\ IF predict_raises(X, artifact.features)
                           THEN resp' = StyleFailure(500)
                           ELSE \E cluster_id \in ClusterIds :
                                \E similar_teams \in find_similar_teams(
                                       team_name, season, file,
                                       artifact.features) :
                                   resp' = [status |-> 200,
                                            team |-> team_name,
                                            season |-> season,
                                            cluster |-> [id |-> cluster_id,
                                                label |-> get_cluster_label(
                                                              cluster_id)],
                                            similar_teams |-> similar_teams,
                                            stats |-> raw_stats]

(* _load_team_row called on its own, as prepare_clustering_features does   *)
(* for every team find_similar_teams visits                                *)
call_load_team_row ==
    /\ req = Idle
    /\ \E team \in StyleTeams, season \in StyleSeasons, file \in StyleFiles :
       \E o \in load_team_row(file, team, season) :
          /\ req' = [route |-> "load_team_row", team |-> team,
                     season |-> season, exists |-> file.exists,
                     df |-> file.rows]
          /\ resp' = [status |-> IF o.raised = 0 THEN 200 ELSE o.raised,
                      row |-> o.r]
          /\ UNCHANGED <<artifact, loc>>

(* prepare_clustering_features(team, season) called on its own *)
call_prepare_clustering_features ==
    /\ req = Idle
    /\ \E team \in StyleTeams, season \in StyleSeasons, file \in StyleFiles :
       \E o \in load_team_row(file, team, season) :
          /\ req' = [route |-> "prepare_clustering_features", team |-> team,
                     season |-> season, exists |-> file.exists,
                     df |-> file.rows]
          /\ resp' = IF o.raised # 0 THEN StyleFailure(o.raised)
                     ELSE [status |-> 200, r |-> o.r,
                           features |-> prepare_clustering_features(o.r)]
          /\ UNCHANGED <<artifact, loc>>

InitStyle ==
    /\ artifact \in Bo3Artifacts
    /\ req = Idle
    /\ loc = NoLocals
    /\ resp = NoResponse

NextStyle ==
    \/ get_team_tactical_style
    \/ call_load_team_row
    \/ call_prepare_clustering_features
    \/ send_response

SpecStyle == InitStyle /\ [][NextStyle]_vars

----------------------------------------------------------------------------
(* app/api/match_results.py : the result-comparison client and its routes. *)
(* Team and league names are sequences of characters, as the texts above;  *)
(* strings that are only compared are strings.                             *)

MaxEvents == 2

(* Python None in a cell that otherwise holds a name *)
NoneText == <<"None">>

(* Python None in a cell that otherwise holds a string *)
None == "None"

(* Python None in a cell that otherwise holds a score *)
NoScore == -1

(* Python None where a MatchResult is expected *)
NoResult == [none |-> TRUE]

Arsenal == <<"A", "r", "s", "e", "n", "a", "l">>

Chelsea == <<"C", "h", "e", "l", "s", "e", "a">>

ManCity == <<"M", "a", "n", " ", "C", "i", "t", "y">>

Atlantis == <<"A", "t", "l", "a", "n", "t", "i", "s">>

ManchesterCity == <<"M", "a", "n", "c", "h", "e", "s", "t", "e", "r", " ", "C", "i", "t", "y">>

ArsenalFC == <<"A", "r", "s", "e", "n", "a", "l", " ", "F", "C">>

ManchesterCityFC == <<"M", "a", "n", "c", "h", "e", "s", "t", "e", "r", " ", "C", "i", "t", "y", " ", "F", "C">>

PremierLeague == <<"P", "r", "e", "m", "i", "e", "r", " ", "L", "e", "a", "g", "u", "e">>

EnglishPremierLeague ==
    <<"E", "n", "g", "l", "i", "s", "h", " ", "P", "r", "e", "m", "i", "e", "r", " ", "L", "e", "a", "g", "u", "e">>

FACup == <<"F", "A", " ", "C", "u", "p">>

(* TEAM_IDS, three of its twenty entries *)
TEAM_IDS ==
    (Arsenal :> "133604") @@ (Chelsea :> "133610") @@ (ManCity :> "133613")

(* TEAM_NAME_VARIATIONS, the entries of the teams kept *)
TEAM_NAME_VARIATIONS ==
    (Arsenal :> <<Arsenal, ArsenalFC>>) @@
    (ManCity :> <<ManchesterCity, ManCity, ManchesterCityFC>>)

(* str.lower of a name; None has no method lower *)
lower_raises(name) == name = NoneText

(* variation.lower() in b.lower() or b.lower() in variation.lower() *)
either_contains(a, b) ==
    contains(lower(b), lower(a)) \/ contains(lower(a), lower(b))

(* match_team_name(team_name, match_team_name) on two names *)
match_team_name(team_name, event_team) ==
    LET team_variations == Get(TEAM_NAME_VARIATIONS, team_name, <<team_name>>)
    IN  \/ \E i \in DOMAIN team_variations :
               either_contains(team_variations[i], event_team)
        \/ either_contains(team_name, event_team)

(* one element of the "results" list of eventslast.php *)
Event(home, away, league, status, home_score, away_score, date) ==
    [strHomeTeam |-> home, strAwayTeam |-> away, strLeague |-> league,
     strStatus |-> status, intHomeScore |-> home_score,
     intAwayScore |-> away_score, dateEvent |-> date]

(* events the service may list: a league match not yet played, the same   *)
(* match finished, the reverse fixture finished, a match of another team,  *)
(* a cup match, an event without a home team name, a finished match with   *)
(* an unreadable score and an event without a league                       *)
Events ==
    << Event(Arsenal, Chelsea, PremierLeague, "Not Started",
             None, None, "2025-01-05"),
       Event(Arsenal, Chelsea, EnglishPremierLeague, "Match Finished",
             "2", "1", "2025-01-05"),
       Event(Chelsea, ArsenalFC, EnglishPremierLeague, "FT",
             "0", "0", "05/01/2025"),
       Event(ManchesterCity, Chelsea, PremierLeague, "Match Finished",
             "1", "2", None),
       Event(Arsenal, Chelsea, FACup, "Match Finished", "1", "2", None),
       Event(NoneText, Chelsea, EnglishPremierLeague, "Match Finished",
             "1", "1", None),
       Event(Arsenal, Chelsea, PremierLeague, "Match Finished",
             "x", "1", None),
       Event(Arsenal, Chelsea, NoneText, "FT", "1", "0", None) >>

(* the "results" lists: up to MaxEvents of the events *)
EventLists ==
    {pick_rows(Events, picked) :
        picked \in {I \in SUBSET DOMAIN Events :
                        Cardinality(I) <= MaxEvents}}

(* what requests.get and response.json() may produce: a timeout, another   *)
(* request error, a response that is not 200, a 200 whose body is not      *)
(* JSON, a JSON list, a JSON object without "results" or with a null       *)
(* "results", and a JSON object with a list of events                      *)
ServiceReplies ==
    {[kind |-> "Timeout"], [kind |-> "ConnectionError"]} \cup
    {[kind |-> "response", status_code |-> c, body |-> "html"] :
        c \in {404, 500}} \cup
    {[kind |-> "response", status_code |-> 200, body |-> b] :
        b \in {"html", "list", "no results", "null results"}} \cup
    {[kind |-> "response", status_code |-> 200, body |-> "results",
      results |-> events] : events \in EventLists}

(* the path parameters home_team and away_team *)
RequestTeams == {Arsenal, Chelsea, ManCity, Atlantis}

PredictedResults == {"Home Win", "Draw"}

(* "Premier League" not in league and "English Premier League" not in      *)
(* league                                                                  *)
not_premier_league(league) ==
    ~contains(league, PremierLeague) /\ ~contains(league, EnglishPremierLeague)

is_finished(status) == status = "Match Finished" \/ status = "FT"

(* one turn of the loop over the events: the event is skipped, appended to *)
(* finished_matches or scheduled_matches, or the turn raises               *)
event_class(home_team, away_team, event) ==
    IF event.strLeague = NoneText THEN "raise"
    ELSE IF not_premier_league(event.strLeague) THEN "skip"
    ELSE IF lower_raises(event.strHomeTeam) \/ lower_raises(event.strAwayTeam)
    THEN "raise"
    ELSE LET home_match == match_team_name(home_team, event.strHomeTeam)
             away_match == match_team_name(away_team, event.strAwayTeam)
             reverse_home == match_team_name(home_team, event.strAwayTeam)
             reverse_away == match_team_name(away_team, event.strHomeTeam)
         IN  IF (home_match /\ away_match) \/ (reverse_home /\ reverse_away)
             THEN IF is_finished(event.strStatus) THEN "finished"
                  ELSE "scheduled"
             ELSE "skip"

(* the events of one class, in the order of the list *)
RECURSIVE matches_of(_, _, _, _)
matches_of(home_team, away_team, events, class) ==
    IF events = <<>> THEN <<>>
    ELSE LET n == Len(events)
             head == matches_of(home_team, away_team,
                                SubSeq(events, 1, n - 1), class)
         IN  IF event_class(home_team, away_team, events[n]) = class
             THEN Append(head, events[n]) ELSE head

(* int(score) if score else None; -2 stands for ValueError *)
parse_score(score) ==
    IF score = None \/ score = "" THEN NoScore
    ELSE IF score = "0" THEN 0
    ELSE IF score = "1" THEN 1
    ELSE IF score = "2" THEN 2
    ELSE -2

(* datetime.strptime(match_date, "%Y-%m-%d").isoformat(), the date left as *)
(* it is when it does not parse                                            *)
iso_date(match_date) ==
    IF match_date = "2025-01-05" THEN "2025-01-05T00:00:00" ELSE match_date

(* the MatchResult built from the first of all_matches *)
match_result_of(home_team, away_team, event) ==
    LET swap == /\ match_team_name(home_team, event.strAwayTeam)
                /\ match_team_name(away_team, event.strHomeTeam)
        home_cell == IF swap THEN event.intAwayScore ELSE event.intHomeScore
        away_cell == IF swap THEN event.intHomeScore ELSE event.intAwayScore
        unreadable == parse_score(home_cell) = -2 \/ parse_score(away_cell) = -2
        home_score == IF unreadable THEN NoScore ELSE parse_score(home_cell)
        away_score == IF unreadable THEN NoScore ELSE parse_score(away_cell)
        finished == is_finished(event.strStatus)
    IN  [home_team |-> home_team, away_team |-> away_team,
         home_score |-> home_score, away_score |-> away_score,
         match_date |-> iso_date(event.dateEvent),
         status |-> IF finished THEN "FINISHED" ELSE "SCHEDULED",
         actual_result |->
             IF finished /\ home_score # NoScore /\ away_score # NoScore
             THEN IF home_score > away_score THEN "Home Win"
                  ELSE IF home_score < away_score THEN "Away Win"
                  ELSE "Draw"
             ELSE None]

(* the body of the try block of get_match_result: the exception it raises  *)
(* ("" for none) and the value it returns                                  *)
get_match_result_body(home_team, away_team, reply) ==
    IF home_team \notin DOMAIN TEAM_IDS
    THEN [raised |-> "", value |-> NoResult]
    ELSE IF reply.kind = "Timeout"
    THEN [raised |-> "Timeout", value |-> NoResult]
    ELSE IF reply.kind = "ConnectionError"
    THEN [raised |-> "RequestException", value |-> NoResult]
    ELSE IF reply.status_code # 200
    THEN [raised |-> "", value |-> NoResult]
    ELSE IF reply.body = "html"
    THEN (* response.json() raises JSONDecodeError *)
         [raised |-> "RequestException", value |-> NoResult]
    ELSE IF reply.body = "list"
    THEN (* a list has no method get: AttributeError *)
         [raised |-> "Exception", value |-> NoResult]
    ELSE IF reply.body \in {"no results", "null results"}
    THEN [raised |-> "", value |-> NoResult]
    ELSE IF reply.results = <<>>
    THEN [raised |-> "", value |-> NoResult]
    ELSE IF \E i \in DOMAIN reply.results :
               event_class(home_team, away_team, reply.results[i]) = "raise"
    THEN [raised |-> "Exception", value |-> NoResult]
    ELSE LET all_matches ==
                 matches_of(home_team, away_team, reply.results, "finished")
                 \o matches_of(home_team, away_team, reply.results,
                               "scheduled")
         IN  IF all_matches = <<>>
             THEN [raised |-> "", value |-> NoResult]
             ELSE [raised |-> "",
                   value |-> match_result_of(home_team, away_team,
                                             all_matches[1])]

(* get_match_result with only the two except clauses for requests          *)
get_match_result_requests_only(home_team, away_team, reply) ==
    LET o == get_match_result_body(home_team, away_team, reply)
    IN  IF o.raised \in {"Timeout", "RequestException"}
        THEN [raised |-> "", value |-> NoResult]
        ELSE o

(* get_match_result: except Timeout, except RequestException and except    *)
(* Exception all return None                                               *)
get_match_result(home_team, away_team, reply) ==
    LET o == get_match_result_body(home_team, away_team, reply)
    IN  IF o.raised \in {"Timeout", "RequestException", "Exception"}
        THEN [raised |-> "", value |-> NoResult]
        ELSE o

(* the answer to a request whose handler raised *)
InternalServerError == [status |-> 500, body |-> NoResult]

(* GET /match-result *)
get_match_result_endpoint ==
    /\ req = Idle
    /\ \E home_team \in RequestTeams, away_team \in RequestTeams,
          reply \in ServiceReplies :
        /\ req' = [route |-> "get_match_result_endpoint",
                   home_team |-> home_team, away_team |-> away_team,
                   reply |-> reply]
        /\ UNCHANGED artifact
        /\ \E body \in {get_match_result_body(home_team, away_team, reply)},
              o \in {get_match_result(home_team, away_team, reply)} :
            /\ loc' = [fault |-> body.raised, result |-> o.value]
            /\ resp' = IF o.raised # "" THEN InternalServerError
                       ELSE IF o.value = NoResult
                       THEN [status |-> 200,
                             body |-> [home_team |-> home_team,
                                       away_team |-> away_team,
                                       home_score |-> NoScore,
                                       away_score |-> NoScore,
                                       match_date |-> None,
                                       status |-> "SCHEDULED",
                                       actual_result |-> None]]
                       ELSE [status |-> 200, body |-> o.value]

(* GET /match-comparison *)
compare_match_prediction ==
    /\ req = Idle
    /\ \E home_team \in RequestTeams, away_team \in RequestTeams,
          predicted_result \in PredictedResults, reply \in ServiceReplies :
        /\ req' = [route |-> "compare_match_prediction",
                   home_team |-> home_team, away_team |-> away_team,
                   predicted_result |-> predicted_result, reply |-> reply]
        /\ UNCHANGED artifact
        /\ \E body \in {get_match_result_body(home_team, away_team, reply)},
              o \in {get_match_result(home_team, away_team, reply)} :
            /\ loc' = [fault |-> body.raised, result |-> o.value]
            /\ resp' =
                 IF o.raised # "" THEN InternalServerError
                 ELSE LET result == o.value
                          found == result # NoResult
                          status == IF found THEN result.status
                                    ELSE "SCHEDULED"
                          actual_result == IF found THEN result.actual_result
                                           ELSE None
                      IN  [status |-> 200,
                           body |->
                             [home_team |-> home_team,
                              away_team |-> away_team,
                              predicted_result |-> predicted_result,
                              actual_result |-> actual_result,
                              match_status |-> status,
                              is_correct |->
                                  IF found /\ status = "FINISHED"
                                           /\ actual_result # None
                                  THEN IF predicted_result = actual_result
                                       THEN "True" ELSE "False"
                                  ELSE None,
                              home_score |-> IF found THEN result.home_score
                                             ELSE NoScore,
                              away_score |-> IF found THEN result.away_score
                                             ELSE NoScore,
                              match_date |-> IF found THEN result.match_date
                                             ELSE None,
                              confidence |-> "High"]]

InitResults ==
    /\ artifact = NoResult
    /\ req = Idle
    /\ loc = NoLocals
    /\ resp = NoResponse

NextResults ==
    \/ get_match_result_endpoint
    \/ compare_match_prediction
    \/ send_response

SpecResults == InitResults /\ [][NextResults]_vars

----------------------------------------------------------------------------
(* app/core/model_loader.py : the cached loaders, with the two model-info  *)
(* routes that only load an artifact and report on it.  Here artifact is   *)
(* the state of the loader module and of the models directory:             *)
(*   disk    the version of each artifact file, NoFile when it is missing  *)
(*           or unreadable                                                 *)
(*   cache   the lru_cache entry of each call, NotCached when there is     *)
(*           none                                                          *)
(*   reads   how often each file has been read                             *)
(* load_teams, load_team_encoding, load_bo2, load_bo3 and                  *)
(* load_naive_bayes_news_classifier are written as load_bo1 is; lru_cache  *)
(* keeps 128 entries per loader, more than there are calls to tell apart.  *)

MaxReads == 2

NoFile == 0

FileVersions == {1, 2}

NotCached == [id |-> 0]

(* the calls the routes make: the loader and its arguments *)
LoaderKeys ==
    {<<"load_bo1">>, <<"load_bo4", "forward">>, <<"load_bo4", "goalkeeper">>}

(* position.lower() inside load_bo4 *)
lower_position(position) == Get(Lower, position, position)

(* the file a call reads *)
file_of(key) ==
    IF key[1] = "load_bo1" THEN "bo1_season_ranking.pkl"
    ELSE "bo4_" \o lower_position(key[2]) \o "_lgb.pkl"

ArtifactFiles == {file_of(key) : key \in LoaderKeys}

(* joblib.load: a new object with the content of the file; id tells the    *)
(* objects read from one file apart                                        *)
joblib_load(state, file) ==
    [id |-> state.reads[file] + 1,
     features |-> <<"Age">>,
     metadata |-> [version |-> state.disk[file]]]

(* the cache keeps the entry of the last call only *)
lru_store_maxsize_one(cache, key, value) ==
    [k \in DOMAIN cache |-> IF k = key THEN value ELSE NotCached]

(* lru_cache storing the result of a call that returned *)
lru_store(cache, key, value) == [cache EXCEPT ![key] = value]

(* a call of a loader decorated with lru_cache(): the entry when there is  *)
(* one; otherwise the function runs, and its result is stored unless it    *)
(* raises                                                                  *)
cached_call(state, key, invalid) ==
    LET file == file_of(key)
    IN  IF key \in DOMAIN state.cache /\ state.cache[key] # NotCached
        THEN [state |-> state, raised |-> "", hit |-> TRUE,
              value |-> state.cache[key]]
        ELSE IF invalid
        THEN [state |-> state, raised |-> "ValueError", hit |-> FALSE,
              value |-> NotCached]
        ELSE IF state.disk[file] = NoFile
        THEN [state |-> [state EXCEPT !.reads[file] = @ + 1],
              raised |-> "FileNotFoundError", hit |-> FALSE,
              value |-> NotCached]
        ELSE LET value == joblib_load(state, file)
             IN  [state |-> [state EXCEPT !.reads[file] = @ + 1,
                                          !.cache = lru_store(@, key, value)],
                  raised |-> "", hit |-> FALSE, value |-> value]

load_bo1(state) == cached_call(state, <<"load_bo1">>, FALSE)

load_bo4(state, position) ==
    cached_call(state, <<"load_bo4", position>>,
                lower_position(position) \notin valid_positions)

(* the reads of one file are followed up to MaxReads *)
within_reads(state, key) ==
    \/ state.cache[key] # NotCached
    \/ state.reads[file_of(key)] < MaxReads

NoLoaderLocals == [model_data |-> NotCached, hit |-> FALSE]

InfoFailure(code) == [status |-> code, body |-> [version |-> 0]]

(* GET /model-info/bo1 *)
get_bo1_model_info ==
    /\ req = Idle
    /\ within_reads(artifact, <<"load_bo1">>)
    /\ req' = [route |-> "get_bo1_model_info", key |-> <<"load_bo1">>]
    /\ \E o \in {load_bo1(artifact)} :
        /\ artifact' = o.state
        /\ loc' = [model_data |-> o.value, hit |-> o.hit]
        /\ resp' = IF o.raised # "" THEN InfoFailure(500)
                   ELSE [status |-> 200,
                         body |-> [features |-> o.value.features,
                                   version |-> o.value.metadata.version]]

(* GET /model-info/bo4 *)
get_bo4_model_info ==
    /\ req = Idle
    /\ \E position \in DOMAIN Lower :
       \E position_lower \in {Lower[position]} :
        /\ req' = [route |-> "get_bo4_model_info", position |-> position,
                   key |-> <<"load_bo4", position_lower>>]
        /\ IF position_lower \notin valid_positions
           THEN /\ UNCHANGED artifact
                /\ loc' = NoLoaderLocals
                /\ resp' = InfoFailure(400)
           ELSE /\ within_reads(artifact, <<"load_bo4", position_lower>>)
                /\ \E o \in {load_bo4(artifact, position_lower)} :
                    /\ artifact' = o.state
                    /\ loc' = [model_data |-> o.value, hit |-> o.hit]
                    /\ resp' =
                         IF o.raised # "" THEN InfoFailure(500)
                         ELSE [status |-> 200,
                               body |-> [position |-> position_lower,
                                         features |-> o.value.features,
                                         version |->
                                             o.value.metadata.version]]

(* between two requests an artifact file is replaced, removed or restored *)
replace_file ==
    /\ req = Idle
    /\ \E file \in ArtifactFiles, version \in {NoFile} \cup FileVersions :
        /\ version # artifact.disk[file]
        /\ artifact' = [artifact EXCEPT !.disk[file] = version]
    /\ UNCHANGED <<req, loc, resp>>

InitLoader ==
    /\ artifact \in {[disk |-> disk,
                      cache |-> [key \in LoaderKeys |-> NotCached],
                      reads |-> [file \in ArtifactFiles |-> 0]] :
                        disk \in [ArtifactFiles ->
                                      {NoFile} \cup FileVersions]}
    /\ req = Idle
    /\ loc = NoLocals
    /\ resp = NoResponse

NextLoader ==
    \/ get_bo1_model_info
    \/ get_bo4_model_info
    \/ replace_file
    \/ send_response

SpecLoader == InitLoader /\ [][NextLoader]_vars

----------------------------------------------------------------------------
(* app/api/bo2.py : get_team_historical_stats and prepare_match_features   *)
(* called on their own, on a match log that was read                       *)

(* feature lists asked of prepare_match_features: the exported model's and *)
(* one with the conceded-goals features, the season and a foreign name     *)
BuilderFeatureLists ==
    {MatchModelFeatures,
     <<"home_goals_conceded_L5", "away_goals_conceded_L5", "Season_encoded",
       "Elo_diff">>}

call_get_team_historical_stats ==
    /\ req = Idle
    /\ \E team \in MatchTeams, is_home \in BOOLEAN, df \in MatchLogs :
          /\ req' = [route |-> "get_team_historical_stats", team |-> team,
                     is_home |-> is_home, df |-> df]
          /\ resp' = [status |-> 200,
                      value |-> get_team_historical_stats(team, is_home, df)]
          /\ UNCHANGED <<artifact, loc>>

call_prepare_match_features ==
    /\ req = Idle
    /\ \E home_team \in MatchTeams, away_team \in MatchTeams,
          season \in MatchSeasons, feature_names \in BuilderFeatureLists,
          df \in MatchLogs :
          /\ req' = [route |-> "prepare_match_features",
                     home_team |-> home_team, away_team |-> away_team,
                     season |-> season, feature_names |-> feature_names,
                     df |-> df]
          /\ resp' = [status |-> 200,
                      value |-> prepare_match_features(
                                    home_team, away_team, season, TeamEncoding,
                                    feature_names, df)]
          /\ UNCHANGED <<artifact, loc>>

InitBuilder ==
    /\ artifact = TeamEncoding
    /\ req = Idle
    /\ loc = NoLocals
    /\ resp = NoResponse

NextBuilder ==
    \/ call_get_team_historical_stats
    \/ call_prepare_match_features
    \/ send_response

SpecBuilder == InitBuilder /\ [][NextBuilder]_vars

----------------------------------------------------------------------------
(* Claims on the season-ranking routes (SpecSeason) *)

SeasonRoutes == {"forecast_next_season", "predict_season_from_data",
                 "predict_season_ranking"}

(* a season route answered 200 with a ranking *)
Ranked == req.route \in SeasonRoutes /\ resp.status = 200

(* the value a ranked entry reports for the prediction it was sorted on *)
Reported(entry) ==
    IF req.route = "predict_season_ranking" THEN entry.predicted_position
    ELSE entry.raw_prediction

(* the sort keys of the batch, in input order *)
Keys == [i \in DOMAIN loc.predictions_list |->
            loc.predictions_list[i].predicted_position]

(* C1: on every inference path every name of the expected feature list is  *)
(* in the vector handed to the scaler/model: a name the builder did not    *)
(* produce is filled with a default, it does not fail the request.         *)
C1_EveryExpectedNameFilled ==
    req.route \in SeasonRoutes =>
        /\ loc.error # "KeyError"
        /\ \A i \in DOMAIN loc.features :
              Range(loc.expected) \subseteq DOMAIN loc.features[i]

(* C3: when the artifact's scaler records its input names, every inference *)
(* path takes those names as the expected feature list, and the stored     *)
(* 'features' list only otherwise.                                         *)
C3_ScalerNamesAreExpected ==
    (req.route \in SeasonRoutes /\ loc.team_stats_list # <<>>) =>
        loc.expected = ScalerOrStoredFeatures(artifact)

C5_TiesKeepInputOrder ==
    Ranked =>
        /\ Len(resp.predictions) = Len(Keys)
        /\ \A r \in DOMAIN resp.predictions : resp.predictions[r].rank = r
        /\ \A i \in DOMAIN Keys :
              LET r == 1 + Cardinality({j \in DOMAIN Keys : RLt(Keys[j], Keys[i])})
                         + Cardinality({j \in 1..(i - 1) : Keys[j] = Keys[i]})
              IN  resp.predictions[r].team = loc.predictions_list[i].team

C5_Witness ==
    /\ Ranked
    /\ Len(Keys) = 2
    /\ Keys[1] = Keys[2]
    /\ loc.outputs[1] # loc.outputs[2]
    /\ loc.predictions_list[1].team # loc.predictions_list[2].team
    /\ resp.predictions[1].team = loc.predictions_list[1].team
    /\ resp.predictions[2].rank = 2

(* C6: every prediction value sorted on and returned lies in [1, 20]. *)
C6_PredictionsClipped ==
    req.route \in SeasonRoutes =>
        /\ \A i \in DOMAIN Keys : RLe(R(1), Keys[i]) /\ RLe(Keys[i], R(20))
        /\ \A r \in DOMAIN resp.predictions :
              /\ RLe(R(1), Reported(resp.predictions[r]))
              /\ RLe(Reported(resp.predictions[r]), R(20))

C6_Witness ==
    /\ Ranked
    /\ req.route = "predict_season_ranking"
    /\ Len(Keys) = 2
    /\ RLt(R(20), loc.outputs[1])
    /\ RLt(loc.outputs[2], R(1))
    /\ resp.predictions[1].predicted_position = R(1)
    /\ resp.predictions[2].predicted_position = R(20)

(* the record carries a precomputed value under key: present and not None *)
Provides(team_stat, key) ==
    key \in DOMAIN team_stat /\ ~IsMissing(team_stat[key])

TotalMatches(team_stat) ==
    RAdd(RAdd(team_stat["wins"], team_stat["draws"]), team_stat["losses"])

(* C9: a team record with wins + draws + losses = 0 and no precomputed     *)
(* rates gets Win_Rate = 0.0 and Clean_Sheet_Rate = 0.0.                   *)
C9_ZeroMatchesZeroRates ==
    \A i \in DOMAIN loc.features :
        LET team_stat == loc.team_stats_list[i]
        IN  (/\ TotalMatches(team_stat) = R(0)
             /\ ~Provides(team_stat, "win_rate")
             /\ ~Provides(team_stat, "clean_sheet_rate")) =>
                /\ loc.features[i]["Win_Rate"] = R(0)
                /\ loc.features[i]["Clean_Sheet_Rate"] = R(0)

(* C10: Win_Rate is the precomputed win rate when the record provides one, *)
(* and otherwise wins / (wins + draws + losses) rounded to 4 decimals,     *)
(* also for POST records whose win_rate is a key with a null value.        *)
C10_WinRateProvidedOrComputed ==
    \A i \in DOMAIN loc.features :
        LET team_stat == loc.team_stats_list[i]
        IN  loc.features[i]["Win_Rate"] =
                IF Provides(team_stat, "win_rate") THEN team_stat["win_rate"]
                ELSE IF TotalMatches(team_stat) = R(0) THEN R(0)
                ELSE round(RDiv(team_stat["wins"], TotalMatches(team_stat)), 4)

----------------------------------------------------------------------------
(* Claims on the match-outcome builder (SpecMatch) *)

(* the request got as far as building the match feature frame *)
MatchFrameBuilt ==
    req.route = "predict_match_outcome" /\ loc.X # <<>>

(* the builder's own values for the request, before reconciliation *)
NativeValues ==
    feature_values(req.home_team, req.away_team, TeamEncoding,
                   get_team_historical_stats(req.home_team, TRUE, req.df),
                   get_team_historical_stats(req.away_team, FALSE, req.df))

(* C2: prepare_match_features returns exactly one row whose columns are    *)
(* the expected list L in the same order; a name of L the builder does not *)
(* compute is 0.0, a name it computes keeps the computed value.            *)
C2_OneRowInExpectedOrder ==
    MatchFrameBuilt =>
        /\ Len(loc.X.rows) = 1
        /\ loc.X.columns = artifact.features
        /\ Len(loc.X.rows[1]) = Len(artifact.features)
        /\ \A j \in DOMAIN artifact.features :
              loc.X.rows[1][j] =
                  IF artifact.features[j] \in NativeMatchNames
                  THEN NativeValues[artifact.features[j]]
                  ELSE R(0)

C2_Witness ==
    /\ MatchFrameBuilt
    /\ resp.status = 200
    /\ loc.X.columns = <<"Elo_diff", "AS">>
    /\ loc.X.rows = <<<<R(0), R(10)>>>>

----------------------------------------------------------------------------
(* Claims on the confidence helpers (SpecConfidence) *)

(* C7: assign_confidence_level is "high" exactly when MAE <= 1.0, "medium" *)
(* exactly when 1.0 < MAE <= 2.0 and "low" exactly when MAE > 2.0,         *)
(* whatever the prediction argument.                                       *)
C7_MaeThresholds ==
    req.route = "assign_confidence_level" =>
        /\ resp.confidence = "high" <=> req.mae.n <= req.mae.d
        /\ resp.confidence = "medium" <=>
               (req.mae.n > req.mae.d /\ req.mae.n <= 2 * req.mae.d)
        /\ resp.confidence = "low" <=> req.mae.n > 2 * req.mae.d

C7_Witness ==
    /\ req.route = "assign_confidence_level"
    /\ req.mae = R(2)
    /\ req.prediction = R(31)
    /\ resp.confidence = "medium"

(* the largest class probability of the request, as a fraction of ProbScale *)
MaxProbability ==
    CHOOSE m \in 0..ProbScale :
        /\ \E k \in DOMAIN req.probabilities :
              req.probabilities[k] = Rat(m, ProbScale)
        /\ \A k \in DOMAIN req.probabilities :
              req.probabilities[k].n * ProbScale <= m * req.probabilities[k].d

(* C8: calculate_match_confidence is "high" exactly when the largest class *)
(* probability is > 0.6, "medium" exactly when it is in [0.4, 0.6], "low"  *)
(* otherwise; 0.6 and 0.4 both give "medium".                              *)
C8_ProbabilityThresholds ==
    req.route = "calculate_match_confidence" =>
        /\ resp.confidence = "high" <=> 10 * MaxProbability > 6 * ProbScale
        /\ resp.confidence = "medium" <=>
               (/\ 10 * MaxProbability >= 4 * ProbScale
                /\ 10 * MaxProbability <= 6 * ProbScale)
        /\ resp.confidence = "low" <=> 10 * MaxProbability < 4 * ProbScale

C8_Witness ==
    /\ req.route = "calculate_match_confidence"
    /\ req.probabilities = <<Rat(2, 10), Rat(2, 10), Rat(6, 10)>>
    /\ resp.confidence = "medium"

----------------------------------------------------------------------------
(* Further claims on the season builder (SpecSeason) *)

(* C11: for every team record, Goal_Difference in the built feature vector *)
(* is goals_scored minus goals_conceded, also when that is negative.       *)
C11_GoalDifference ==
    \A i \in DOMAIN loc.features :
        LET team_stat == loc.team_stats_list[i]
        IN  /\ loc.features[i]["Goal_Difference"].d = 1
            /\ loc.features[i]["Goal_Difference"].n =
                   team_stat["goals_scored"].n - team_stat["goals_conceded"].n

C11_Witness ==
    \E i \in DOMAIN loc.features :
        /\ loc.team_stats_list[i]["goals_scored"] = R(18)
        /\ loc.team_stats_list[i]["goals_conceded"] = R(45)
        /\ loc.features[i]["Goal_Difference"] = R(-27)

(* C12: for every team record, Points in the built feature vector is the   *)
(* integer 3 * wins + draws, whatever the losses, goals and rates are.     *)
C12_Points ==
    \A i \in DOMAIN loc.features :
        LET team_stat == loc.team_stats_list[i]
        IN  /\ loc.features[i]["Points"].d = 1
            /\ loc.features[i]["Points"].n =
                   3 * team_stat["wins"].n + team_stat["draws"].n

C12_Witness ==
    \E i \in DOMAIN loc.features :
        /\ loc.team_stats_list[i]["wins"] = R(20)
        /\ loc.team_stats_list[i]["draws"] = R(10)
        /\ loc.team_stats_list[i]["losses"] = R(8)
        /\ loc.features[i]["Points"] = R(70)

----------------------------------------------------------------------------
(* Claims on the safe ratio helper (SpecRatio) *)

(* C13: ratio returns 0.0 for every numerator when the denominator is      *)
(* zero, null or not-a-number, 0.0 for numerator 0 with a non-zero         *)
(* denominator, and numerator / denominator for any other pair of numbers; *)
(* it raises for none of these inputs.                                     *)
C13_SafeRatio ==
    req.route = "ratio" =>
        IF req.den.d = 0 \/ req.den.n = 0
        THEN resp.status = 200 /\ resp.value = R(0)
        ELSE req.num.d # 0 =>
                /\ resp.status = 200
                /\ resp.value.d > 0
                /\ resp.value.n * req.den.n * req.num.d =
                       req.num.n * req.den.d * resp.value.d
                /\ req.num.n = 0 => resp.value = R(0)

C13_Witness ==
    /\ req.route = "ratio"
    /\ req.num = R(5)
    /\ req.den = Missing
    /\ resp.status = 200
    /\ resp.value = R(0)

----------------------------------------------------------------------------
(* Claims on the player recommendations (SpecPlayers) *)

(* the route answered 200 *)
PlayersServed ==
    req.route = "get_player_recommendations" /\ resp.status = 200

(* C14: the recommendations are ordered by predicted score descending and, *)
(* among players whose predicted scores (the model's outputs, before the   *)
(* response rounds them) are exactly equal, by market value descending;    *)
(* the rank is the position in that order.                                 *)
C14_ScoreThenMarketValue ==
    PlayersServed =>
        /\ Len(loc.sorted) = Len(loc.players_df)
        /\ {loc.sorted[k].Player : k \in DOMAIN loc.sorted} =
               {loc.players_df[k].Player : k \in DOMAIN loc.players_df}
        /\ Len(resp.recommendations) =
               IF req.limit < Len(loc.sorted) THEN req.limit ELSE Len(loc.sorted)
        /\ \A a \in DOMAIN resp.recommendations :
              /\ resp.recommendations[a].rank = a
              /\ resp.recommendations[a].player = loc.sorted[a].Player
              /\ resp.recommendations[a].market_value = loc.sorted[a].Market_Value
        /\ \A a, b \in DOMAIN loc.sorted :
              a < b =>
                 LET sa == loc.sorted[a].predicted_score
                     sb == loc.sorted[b].predicted_score
                 IN  /\ sa.n * sb.d >= sb.n * sa.d
                     /\ sa = sb =>
                            loc.sorted[a].Market_Value.n * loc.sorted[b].Market_Value.d
                            >= loc.sorted[b].Market_Value.n * loc.sorted[a].Market_Value.d

(* two players of equal score, the one of higher market value later in the *)
(* frame and first in the answer                                           *)
C14_Witness ==
    /\ PlayersServed
    /\ Len(resp.recommendations) = 2
    /\ loc.players_df[1].Player = resp.recommendations[2].player
    /\ loc.players_df[2].Player = resp.recommendations[1].player
    /\ loc.sorted[1].predicted_score = loc.sorted[2].predicted_score
    /\ RLt(loc.sorted[2].Market_Value, loc.sorted[1].Market_Value)

(* max_age as the handler passes it on: the default of the position when   *)
(* the parameter is absent                                                 *)
EffectiveMaxAge ==
    IF req.max_age # 0 THEN req.max_age
    ELSE IF Lower[req.position] = "goalkeeper" THEN 26 ELSE 23

(* the rows of the file that pass the position, age, minutes and league    *)
(* filters of the request                                                  *)
PassingRows ==
    {q \in Range(req.df) :
        passes_filters(q, pos_map[Lower[req.position]], EffectiveMaxAge,
                       req.min_minutes)}

MinutesOf(q) == IF q.Min.d = 0 THEN 0 ELSE q.Min.n

(* C15: after get_player_data_from_dataset each player is in at most one   *)
(* row, and that row is the player's row of highest minutes among the rows *)
(* that passed the filters.                                                *)
C15_OneRowPerPlayer ==
    PlayersServed =>
        /\ \A i, j \in DOMAIN loc.players_df :
              loc.players_df[i].Player = loc.players_df[j].Player => i = j
        /\ {q.Player : q \in PassingRows} =
               {loc.players_df[i].Player : i \in DOMAIN loc.players_df}
        /\ \A i \in DOMAIN loc.players_df :
              /\ \E q \in PassingRows :
                    /\ q.Player = loc.players_df[i].Player
                    /\ q.Squad = loc.players_df[i].Squad
                    /\ q.Comp = loc.players_df[i].Comp
                    /\ R(MinutesOf(q)) = loc.players_df[i].Min
              /\ \A q \in PassingRows :
                    q.Player = loc.players_df[i].Player =>
                        MinutesOf(q) <= loc.players_df[i].Min.n

(* the file holds the player at 900 and at 1500 minutes, both rows pass,   *)
(* and the 1500-minute row is the one kept                                 *)
C15_Witness ==
    /\ PlayersServed
    /\ \E q \in PassingRows : q.Player = "Saka" /\ q.Min = R(900)
    /\ \E q \in PassingRows : q.Player = "Saka" /\ q.Min = R(1500)
    /\ \E i \in DOMAIN loc.players_df :
          /\ loc.players_df[i].Player = "Saka"
          /\ loc.players_df[i].Min = R(1500)
          /\ loc.players_df[i].Squad = "Sevilla"

----------------------------------------------------------------------------
(* Claims on the text preprocessor (SpecText) *)

(* the markers of the string add_style_features returned *)
Emitted == split(resp.value)

Times(marker) == Cardinality({i \in DOMAIN Emitted : Emitted[i] = marker})

(* the eight keywords with the marker the specification gives each *)
SensationalMarkers ==
    <<[word |-> <<"e", "x", "c", "l", "u", "s", "i", "v", "e">>,
       marker |-> <<"_", "S", "E", "N", "S", "A", "T", "I", "O", "N", "A", "L", "_", "E", "X", "C", "L", "U", "S", "I", "V", "E", "_">>],
      [word |-> <<"s", "h", "o", "c", "k", "i", "n", "g">>,
       marker |-> <<"_", "S", "E", "N", "S", "A", "T", "I", "O", "N", "A", "L", "_", "S", "H", "O", "C", "K", "I", "N", "G", "_">>],
      [word |-> <<"b", "o", "m", "b", "s", "h", "e", "l", "l">>,
       marker |-> <<"_", "S", "E", "N", "S", "A", "T", "I", "O", "N", "A", "L", "_", "B", "O", "M", "B", "S", "H", "E", "L", "L", "_">>],
      [word |-> <<"r", "e", "v", "e", "a", "l", "e", "d">>,
       marker |-> <<"_", "S", "E", "N", "S", "A", "T", "I", "O", "N", "A", "L", "_", "R", "E", "V", "E", "A", "L", "E", "D", "_">>],
      [word |-> <<"s", "l", "a", "m", "m", "e", "d">>,
       marker |-> <<"_", "S", "E", "N", "S", "A", "T", "I", "O", "N", "A", "L", "_", "S", "L", "A", "M", "M", "E", "D", "_">>],
      [word |-> <<"b", "l", "a", "s", "t", "s">>,
       marker |-> <<"_", "S", "E", "N", "S", "A", "T", "I", "O", "N", "A", "L", "_", "B", "L", "A", "S", "T", "S", "_">>],
      [word |-> <<"s", "t", "u", "n", "n", "i", "n", "g">>,
       marker |-> <<"_", "S", "E", "N", "S", "A", "T", "I", "O", "N", "A", "L", "_", "S", "T", "U", "N", "N", "I", "N", "G", "_">>],
      [word |-> <<"m", "a", "s", "s", "i", "v", "e">>,
       marker |-> <<"_", "S", "E", "N", "S", "A", "T", "I", "O", "N", "A", "L", "_", "M", "A", "S", "S", "I", "V", "E", "_">>]>>

(* the keyword occurs in the text when case is ignored *)
OccursFolded(text, word) ==
    \E i \in 1..(Len(text) - Len(word) + 1) :
        \A j \in DOMAIN word :
            text[i + j - 1] = word[j] \/ text[i + j - 1] = upper_char(word[j])

(* C16: add_style_features emits _MULTIEXCLAIM_ exactly when the text has  *)
(* more than 2 '!', _MULTIQUESTION_ exactly when it has more than 2 '?',   *)
(* and exactly one _SENSATIONAL_<WORD>_ marker for each of the eight       *)
(* keywords that occurs in the text case-insensitively, none for the rest. *)
C16_StyleMarkers ==
    req.route = "add_style_features" =>
        /\ Times(MULTIEXCLAIM) =
               IF Cardinality({i \in DOMAIN req.text : req.text[i] = "!"}) > 2
               THEN 1 ELSE 0
        /\ Times(MULTIQUESTION) =
               IF Cardinality({i \in DOMAIN req.text : req.text[i] = "?"}) > 2
               THEN 1 ELSE 0
        /\ \A k \in DOMAIN SensationalMarkers :
              Times(SensationalMarkers[k].marker) =
                  IF OccursFolded(req.text, SensationalMarkers[k].word)
                  THEN 1 ELSE 0
        /\ \A i \in DOMAIN Emitted :
              Emitted[i] \in {MULTIEXCLAIM, MULTIQUESTION, HIGHCAPS}
                  \cup {SensationalMarkers[k].marker :
                            k \in DOMAIN SensationalMarkers}

(* "SHOCKING!!!" *)
C16_Witness ==
    /\ req.route = "add_style_features"
    /\ req.text = <<"S", "H", "O", "C", "K", "I", "N", "G", "!", "!", "!">>
    /\ Emitted = <<MULTIEXCLAIM, HIGHCAPS, <<"_", "S", "E", "N", "S", "A", "T", "I", "O", "N", "A", "L", "_", "S", "H", "O", "C", "K", "I", "N", "G", "_">>>>

(* a token of the text reaches lemmatizer.lemmatize: it is longer than 2   *)
(* characters and no stopword other than a negation                        *)
ReachesLemmatizer(text) ==
    \E w \in Range(word_tokenize(text)) :
        Len(w) > 2 /\ (w \in negations \/ w \notin EnglishStopwords)

(* C18 as stated: with the lemmatizer or any NLTK resource unavailable,    *)
(* lemmatize returns its input text unchanged.                             *)
C18_UnavailableMeansUnchanged ==
    (/\ req.route = "lemmatize"
     /\ (~artifact.constructed \/ ~artifact.punkt \/ ~artifact.wordnet)) =>
        resp.value = req.text

(* C18, amended: lemmatize returns its input text unchanged when the       *)
(* construction failed, when the tokenizer's resource is missing, or when  *)
(* the lemmatizer's resource is missing and a token reaches the            *)
(* lemmatizer; it never raises, and transform returns one string per       *)
(* document, whose lemmatized stage falls back in the same way.            *)
C18_FallbackOnFailure ==
    /\ req.route = "lemmatize" =>
          /\ resp.status = 200
          /\ (\/ ~artifact.constructed
              \/ ~artifact.punkt
              \/ ~artifact.wordnet /\ ReachesLemmatizer(req.text)) =>
                 resp.value = req.text
    /\ req.route = "transform" =>
          /\ resp.status = 200
          /\ Len(resp.results) = Len(req.texts)
          /\ \A i \in DOMAIN req.texts :
                (\/ ~artifact.constructed
                 \/ ~artifact.punkt
                 \/ ~artifact.wordnet /\ ReachesLemmatizer(loc.stages[i].cleaned)) =>
                    loc.stages[i].lemmatized = loc.stages[i].cleaned

(* wordnet is missing and "the clubs not revealed!!!" comes back as it is  *)
C18_Witness ==
    /\ req.route = "lemmatize"
    /\ artifact.constructed /\ artifact.punkt /\ ~artifact.wordnet
    /\ req.text = <<"t", "h", "e", " ", "c", "l", "u", "b", "s", " ", "n", "o", "t", " ", "r", "e", "v", "e", "a", "l", "e", "d", "!", "!", "!">>
    /\ resp.value = req.text

----------------------------------------------------------------------------
(* Claims on the team-style route (SpecStyle) *)

(* the dataset file is missing or the model artifact cannot be loaded *)
InfrastructureFault == ~artifact.loadable \/ ~req.exists

(* the requested team has no row in the dataset that is there *)
UnknownTeam ==
    /\ req.exists
    /\ \A i \in DOMAIN req.df : req.df[i].Team # req.team_name

(* C17: the route answers a missing dataset file or an unloadable model    *)
(* with 500 and never with 400, and answers an unknown team name with 400  *)
(* and never with 500 when the dataset and the model are there.            *)
C17_FaultClassesDistinguished ==
    req.route = "get_team_tactical_style" =>
        /\ InfrastructureFault => resp.status = 500
        /\ (UnknownTeam /\ ~InfrastructureFault) => resp.status = 400

----------------------------------------------------------------------------
(* Claims on the result-comparison client (SpecResults) *)

ResultRoutes == {"get_match_result_endpoint", "compare_match_prediction"}

(* the lookup met a fault: the home team has no id, the request timed out  *)
(* or failed, the answer was not a 200, or reading the answer raised       *)
LookupFaulted ==
    \/ req.home_team \notin DOMAIN TEAM_IDS
    \/ req.reply.kind \in {"Timeout", "ConnectionError"}
    \/ req.reply.kind = "response" /\ req.reply.status_code # 200
    \/ loc.fault # ""

(* the status field of the answer of either route *)
AnsweredStatus ==
    IF req.route = "get_match_result_endpoint" THEN resp.body.status
    ELSE resp.body.match_status

(* C19: whenever the lookup meets a fault, get_match_result returns None   *)
(* and both routes answer 200 with status SCHEDULED, no actual result and  *)
(* no scores; the comparison route leaves is_correct unset.                *)
C19_FaultsBecomeScheduled ==
    (req.route \in ResultRoutes /\ LookupFaulted) =>
        /\ loc.result = NoResult
        /\ resp.status = 200
        /\ AnsweredStatus = "SCHEDULED"
        /\ resp.body.actual_result = None
        /\ resp.body.home_score = NoScore
        /\ resp.body.away_score = NoScore
        /\ req.route = "compare_match_prediction" =>
               resp.body.is_correct = None

(* C19 witness: an event without a home team name made the parsing raise   *)
(* for a known home team, and the comparison route answered SCHEDULED      *)
C19_Witness ==
    /\ req.route = "compare_match_prediction"
    /\ req.home_team \in DOMAIN TEAM_IDS
    /\ req.reply.kind = "response"
    /\ loc.fault = "Exception"
    /\ resp.status = 200
    /\ resp.body.match_status = "SCHEDULED"

----------------------------------------------------------------------------
(* Claims on the cached loaders (SpecLoader) *)

(* the request being answered called the loader with the arguments of key *)
Called(key) ==
    /\ req.route \in {"get_bo1_model_info", "get_bo4_model_info"}
    /\ req.key = key
    /\ resp.status # 400

(* C20: once a call of a loader has returned and its result is cached, no  *)
(* step reads the artifact file again, replaces, removes or changes the    *)
(* cached object, and every later call with the same arguments returns     *)
(* that object, whatever happens to the file.                              *)
C20_LoadedOnceAndKept ==
    [][\A key \in LoaderKeys :
          artifact.cache[key] # NotCached =>
              /\ artifact'.cache[key] = artifact.cache[key]
              /\ artifact'.reads[file_of(key)] = artifact.reads[file_of(key)]
              /\ Called(key)' => loc'.model_data = artifact.cache[key]]_vars

(* C20 witness: a position's model was asked for again after its file had  *)
(* been replaced or removed, and the object of the first load was returned *)
C20_Witness ==
    /\ req.route = "get_bo4_model_info"
    /\ resp.status = 200
    /\ loc.hit
    /\ loc.model_data = artifact.cache[req.key]
    /\ artifact.reads[file_of(req.key)] = 1
    /\ artifact.disk[file_of(req.key)] # loc.model_data.metadata.version

----------------------------------------------------------------------------
(* Further claims on the text preprocessor (SpecText) *)

(* the tokens of the text handed to lemmatize and of what it returned *)
TokensIn == word_tokenize(req.text)

TokensOut == word_tokenize(resp.value)

(* C21: every negation term (not, no, never, against) that is a token of   *)
(* the cleaned text is, itself or as its lemma, a token of the lemmatized  *)
(* output; when the stopwords were loaded and nothing failed, no other     *)
(* stopword is a token of the output.                                      *)
C21_NegationsKept ==
    req.route = "lemmatize" =>
        /\ \A i \in DOMAIN TokensIn :
              TokensIn[i] \in negations =>
                  \E j \in DOMAIN TokensOut :
                      TokensOut[j] \in {TokensIn[i], wordnet_lemma(TokensIn[i])}
        /\ (artifact.constructed /\ ~lemmatize_failed(artifact, req.text)) =>
              \A j \in DOMAIN TokensOut :
                  TokensOut[j] \notin EnglishStopwords \ negations

(* the uppercase characters of the text handed to add_style_features *)
UpperCount == Cardinality({i \in DOMAIN req.text : isupper(req.text[i])})

(* C22: _HIGHCAPS_ is emitted, once, exactly when the uppercase characters *)
(* are more than 5% of the characters of the text.                         *)
C22_HighCapsAboveFivePercent ==
    req.route = "add_style_features" =>
        Times(HIGHCAPS) =
            IF 100 * UpperCount > 5 * Len(req.text) THEN 1 ELSE 0

(* C23: transform returns one output per document, in order; the output is *)
(* the lemmatized cleaned text, a blank and the markers of the original    *)
(* text, without the blank when either part is empty.                      *)
C23_MarkersOfOriginalText ==
    req.route = "transform" =>
        /\ Len(resp.results) = Len(req.texts)
        /\ \A i \in DOMAIN req.texts :
              LET lemmatized == lemmatize(artifact, clean(req.texts[i]))
                  style == add_style_features(req.texts[i])
              IN  resp.results[i] =
                      IF style = <<>> THEN lemmatized
                      ELSE IF lemmatized = <<>> THEN style
                      ELSE lemmatized \o <<" ">> \o style

(* C23 witness: of two documents the second has capitals that cleaning     *)
(* lowers, and its output carries _HIGHCAPS_ after the lemmatized words    *)
C23_Witness ==
    /\ req.route = "transform"
    /\ Len(req.texts) = 2
    /\ \A j \in DOMAIN loc.stages[2].cleaned :
          ~isupper(loc.stages[2].cleaned[j])
    /\ loc.stages[2].lemmatized # <<>>
    /\ contains(resp.results[2], HIGHCAPS)
    /\ resp.results[1] # resp.results[2]

----------------------------------------------------------------------------
(* Claims on the match feature builder (SpecBuilder) *)

(* the rows of the log in which the team plays the role asked for *)
RECURSIVE RoleRows(_, _, _)
RoleRows(df, team, is_home) ==
    IF df = <<>> THEN <<>>
    ELSE LET rest == RoleRows(Tail(df), team, is_home)
             side == IF is_home THEN df[1].HomeTeam ELSE df[1].AwayTeam
         IN  IF side = team THEN <<df[1]>> \o rest ELSE rest

(* C24: get_team_historical_stats returns the fixed default aggregate when *)
(* the team has no row in the role asked for, and otherwise what it        *)
(* returns for the rows of that role alone.                                *)
C24_DefaultsAndRoleRows ==
    req.route = "get_team_historical_stats" =>
        LET rows == RoleRows(req.df, req.team, req.is_home)
        IN  IF rows = <<>>
            THEN resp.value =
                     [shots |-> R(12), shots_on_target |-> R(5),
                      fouls |-> R(12), corners |-> R(5),
                      yellows |-> Rat(15, 10), reds |-> Rat(5, 100),
                      wins |-> R(5), goals_scored |-> Rat(13, 10),
                      goals_conceded |-> Rat(12, 10), form_wins |-> R(2),
                      form_goals |-> R(5)]
            ELSE /\ resp.value =
                        get_team_historical_stats(req.team, req.is_home, rows)
                 /\ resp.value.wins.n <= Len(rows)

(* C24 witness: Arsenal asked for as the away side of a log of two matches *)
(* that has Arsenal at home only, and the defaults returned                *)
C24_Witness ==
    /\ req.route = "get_team_historical_stats"
    /\ req.team = "Arsenal"
    /\ ~req.is_home
    /\ Len(req.df) = 2
    /\ req.df[1].HomeTeam = "Arsenal"
    /\ req.df[2].HomeTeam = "Arsenal"
    /\ resp.value.goals_conceded = Rat(12, 10)

----------------------------------------------------------------------------
(* Further claims on the team-style route (SpecStyle) *)

(* the rows of the dataset of the request with the given team, in order *)
RECURSIVE RowsOfTeam(_, _)
RowsOfTeam(df, team) ==
    IF df = <<>> THEN <<>>
    ELSE (IF df[1].Team = team THEN <<df[1]>> ELSE <<>>)
         \o RowsOfTeam(Tail(df), team)

(* the rows of the team that are of the season asked for *)
ExactRows ==
    LET mine == RowsOfTeam(req.df, req.team)
    IN  [i \in {j \in DOMAIN mine : mine[j].Season = req.season} |-> mine[i]]

(* _load_team_row returns the first row of team and season, else a row of  *)
(* the team with the highest season encoding, else fails with 400          *)
ExactThenLatestThen400 ==
    LET mine == RowsOfTeam(req.df, req.team)
    IN  IF DOMAIN ExactRows # {}
        THEN /\ resp.status = 200
             /\ resp.row = ExactRows[CHOOSE i \in DOMAIN ExactRows :
                                        \A j \in DOMAIN ExactRows : i <= j]
        ELSE IF mine # <<>>
        THEN /\ resp.status = 200
             /\ \E i \in DOMAIN mine : resp.row = mine[i]
             /\ \A i \in DOMAIN mine :
                   mine[i].Season_encoded <= resp.row.Season_encoded
        ELSE resp.status = 400

(* C25 as stated: the row of team and season when there is one, else the   *)
(* team's row of the highest season encoding, and a failure, with 400,     *)
(* only when the team has no row at all.                                   *)
C25_FailsOnlyWith400 ==
    req.route = "load_team_row" => ExactThenLatestThen400

(* C25: the same when the dataset file exists; without the file the lookup *)
(* fails with 500.                                                         *)
C25_ExactThenLatest ==
    req.route = "load_team_row" =>
        IF req.exists THEN ExactThenLatestThen400 ELSE resp.status = 500

(* C25 witness: Arsenal has the seasons 2024-25 and 2023-24, 2025-26 is    *)
(* asked for and the row of 2024-25 is returned                            *)
C25_Witness ==
    /\ req.route = "load_team_row"
    /\ req.team = "Arsenal"
    /\ req.season = "2025-26"
    /\ Len(RowsOfTeam(req.df, "Arsenal")) = 2
    /\ resp.status = 200
    /\ resp.row.Season = "2024-25"

(* a denominator that is zero, null or not a number *)
NoDenominator(x) == IsMissing(x) \/ x.n = 0

(* C26: for every row prepare_clustering_features is given, each feature   *)
(* is a number, a source cell without a value counting as 0, and each      *)
(* derived ratio is 0 when its denominator is zero, null or not a number.  *)
C26_FeaturesAlwaysNumeric ==
    (req.route = "prepare_clustering_features" /\ resp.status = 200) =>
        LET r == resp.r
            features == resp.features
        IN  /\ \A f \in DOMAIN features : ~IsMissing(features[f])
            /\ IsMissing(r.Avg_Shots) => features.Avg_Shots = R(0)
            /\ NoDenominator(r.Avg_Shots) =>
                   /\ features.Goals_per_Shot = R(0)
                   /\ features.Corners_per_Shot = R(0)
            /\ NoDenominator(r.Matches_Played) =>
                   /\ features.Fouls_per_Match = R(0)
                   /\ features.Yellow_per_Match = R(0)
                   /\ features.Red_per_Match = R(0)
            /\ NoDenominator(r.Fouls) => features.Cards_per_Foul = R(0)

----------------------------------------------------------------------------
(* Further claims on the player-recommendation route (SpecPlayers) *)

(* the row of the file that a row of the prepared frame was derived from *)
SourceRows(row) ==
    {k \in DOMAIN req.df : /\ req.df[k].Player = row.Player
                           /\ req.df[k].Squad = row.Squad
                           /\ req.df[k].Comp = row.Comp
                           /\ req.df[k].Pos = row.Pos
                           /\ fillna(req.df[k].Age, R(0)) = row.Age
                           /\ fillna(req.df[k].Min, R(0)) = row.Min}

(* count per ninety minutes as the claim states it: the count over the     *)
(* nineties where the nineties are a positive number, 0 where they are 0   *)
(* or missing; a missing count counts as 0                                 *)
PerNinety(raw, nineties) ==
    IF IsMissing(nineties) \/ nineties = R(0) \/ RLt(nineties, R(0)) THEN R(0)
    ELSE IF IsMissing(raw) THEN R(0)
    ELSE RDiv(raw, nineties)

(* C27: every row of the frame that get_player_data_from_dataset returns   *)
(* has Goals_per_90, Assists_per_90, Tackles_per_90 and                    *)
(* Interceptions_per_90 equal to the raw count of its file row divided by  *)
(* the nineties played when the nineties are greater than zero, and 0 when *)
(* the nineties are 0 or missing, and its Productivity_Score is            *)
(* Goals_per_90 + Assists_per_90.                                          *)
C27_PerNinetyColumns ==
    (req.route = "get_player_recommendations" /\ resp.status = 200) =>
        \A i \in DOMAIN loc.players_df :
            LET row == loc.players_df[i]
            IN  /\ SourceRows(row) # {}
                /\ \A k \in SourceRows(row) :
                      LET q == req.df[k]
                      IN  /\ row.Goals_per_90 = PerNinety(q.Gls, q.N90s)
                          /\ row.Assists_per_90 = PerNinety(q.Ast, q.N90s)
                          /\ row.Tackles_per_90 = PerNinety(q.Tkl, q.N90s)
                          /\ row.Interceptions_per_90 = PerNinety(q.Int, q.N90s)
                /\ row.Productivity_Score =
                       RAdd(row.Goals_per_90, row.Assists_per_90)

(* a frame with a row of positive nineties (Saka at Arsenal: 4 goals, 2    *)
(* assists, 5 tackles and 1 interception in 10 nineties) and a row whose   *)
(* nineties are missing (Yoro)                                             *)
C27_Witness ==
    /\ req.route = "get_player_recommendations"
    /\ resp.status = 200
    /\ \E i, j \in DOMAIN loc.players_df :
          /\ loc.players_df[i].Player = "Saka"
          /\ loc.players_df[i].Goals_per_90 = Rat(2, 5)
          /\ loc.players_df[i].Assists_per_90 = Rat(1, 5)
          /\ loc.players_df[i].Tackles_per_90 = Rat(1, 2)
          /\ loc.players_df[i].Interceptions_per_90 = Rat(1, 10)
          /\ loc.players_df[i].Productivity_Score = Rat(3, 5)
          /\ loc.players_df[j].Player = "Yoro"
          /\ loc.players_df[j].Tackles_per_90 = R(0)
          /\ loc.players_df[j].Productivity_Score = R(0)

----------------------------------------------------------------------------
(* Further claims on the match feature builder (SpecBuilder) *)

(* the value of the named column in the one row of a feature frame *)
ColumnValue(frame, name) ==
    frame.rows[1][CHOOSE j \in DOMAIN frame.columns : frame.columns[j] = name]

(* goals the team let in over the rows, all of them rows of one role *)
RECURSIVE ConcededSum(_, _)
ConcededSum(rows, is_home) ==
    IF rows = <<>> THEN R(0)
    ELSE RAdd(IF is_home THEN rows[1].FTAG ELSE rows[1].FTHG,
              ConcededSum(Tail(rows), is_home))

(* the team's mean goals conceded over all its matches in the role *)
ConcededMean(df, team, is_home) ==
    LET rows == RoleRows(df, team, is_home)
    IN  RDiv(ConcededSum(rows, is_home), R(Len(rows)))

(* C28 as stated: home_goals_conceded_L5 and away_goals_conceded_L5 are   *)
(* the team's mean goals conceded in that venue role times 5.              *)
C28_ConcededIsMeanTimesFive ==
    (/\ req.route = "prepare_match_features"
     /\ "home_goals_conceded_L5" \in Range(req.feature_names)) =>
        /\ RoleRows(req.df, req.home_team, TRUE) # <<>> =>
              ColumnValue(resp.value, "home_goals_conceded_L5") =
                  RMul(ConcededMean(req.df, req.home_team, TRUE), R(5))
        /\ RoleRows(req.df, req.away_team, FALSE) # <<>> =>
              ColumnValue(resp.value, "away_goals_conceded_L5") =
                  RMul(ConcededMean(req.df, req.away_team, FALSE), R(5))

(* C28 amended: home_goals_conceded_L5 and away_goals_conceded_L5 are the  *)
(* whole part of five times the team's mean goals conceded over all its    *)
(* matches in that venue role (not a sum over its last matches), and 6,    *)
(* five times the default mean 1.2, for a team with no match in that role. *)
C28_ConcededIsWholePartOfMeanTimesFive ==
    (/\ req.route = "prepare_match_features"
     /\ "home_goals_conceded_L5" \in Range(req.feature_names)) =>
        /\ ColumnValue(resp.value, "home_goals_conceded_L5") =
              IF RoleRows(req.df, req.home_team, TRUE) = <<>> THEN R(6)
              ELSE Trunc(RMul(ConcededMean(req.df, req.home_team, TRUE), R(5)))
        /\ ColumnValue(resp.value, "away_goals_conceded_L5") =
              IF RoleRows(req.df, req.away_team, FALSE) = <<>> THEN R(6)
              ELSE Trunc(RMul(ConcededMean(req.df, req.away_team, FALSE), R(5)))

(* C28 witness: Arsenal at home twice, conceding 1 and 2: the mean 1.5     *)
(* times 5 is 7.5 and the feature is 7; Chelsea away in both, conceding 3  *)
(* and 2: the mean 2.5 times 5 is 12.5 and the feature is 12               *)
C28_Witness ==
    /\ req.route = "prepare_match_features"
    /\ req.home_team = "Arsenal"
    /\ req.away_team = "Chelsea"
    /\ Len(RoleRows(req.df, "Arsenal", TRUE)) = 2
    /\ ConcededMean(req.df, "Arsenal", TRUE) = Rat(3, 2)
    /\ "home_goals_conceded_L5" \in Range(req.feature_names)
    /\ ColumnValue(resp.value, "home_goals_conceded_L5") = R(7)
    /\ ColumnValue(resp.value, "away_goals_conceded_L5") = R(12)

(* C29: the frame prepare_match_features returns is the same for every     *)
(* value of its season argument, and Season_encoded, where the model asks  *)
(* for it, is 24.                                                          *)
C29_SeasonIgnored ==
    req.route = "prepare_match_features" =>
        /\ \A season \in MatchSeasons :
              prepare_match_features(req.home_team, req.away_team, season,
                                     TeamEncoding, req.feature_names, req.df)
                  = resp.value
        /\ "Season_encoded" \in Range(req.feature_names) =>
              ColumnValue(resp.value, "Season_encoded") = R(24)

(* C29 witness: the features of a match of season 2025 built from a log    *)
(* with matches in it, Season_encoded among them                           *)
C29_Witness ==
    /\ req.route = "prepare_match_features"
    /\ req.season = 2025
    /\ req.df # <<>>
    /\ "Season_encoded" \in Range(req.feature_names)
    /\ ColumnValue(resp.value, "Season_encoded") = R(24)

----------------------------------------------------------------------------
(* Further claims on the season-ranking routes (SpecSeason) *)

(* the name of the first team of the request that is not a valid team; the *)
(* empty name when every team is valid                                     *)
RECURSIVE FirstUnknownTeam(_)
FirstUnknownTeam(teams) ==
    IF teams = <<>> THEN ""
    ELSE IF teams[1].team \notin ValidTeams THEN teams[1].team
    ELSE FirstUnknownTeam(Tail(teams))

============================================================================
